---- MODULE Spec2Model ----
(***************************************************************************)
(* Model of the GMShoot shot-group analysis engine                         *)
(* (src/src/analysis_engine: models.py, statistics.py, metrics.py).        *)
(*                                                                         *)
(* Numbers.  The engine computes in float64.  Here a shot coordinate is an *)
(* integer, and every derived real quantity v is carried as the integer    *)
(* floor(Scale * v) ("fixed point"), or as an exact numerator over a       *)
(* stated denominator where the code compares two quantities.  A threshold *)
(* t is carried as the integer t * ThresholdDen.                           *)
(*                                                                         *)
(* References.  A Python list of Shot objects that a function returns is   *)
(* carried as the sequence of the positions (1-based) those objects have   *)
(* in the input list.                                                      *)
(***************************************************************************)
EXTENDS Integers, Sequences, FiniteSets, TLC

VARIABLES
    shots,              \* ShotGroup.shots
    target_center,      \* ShotGroup.target_center
    target_ring_radii,  \* ShotGroup.target_ring_radii
    call,               \* the call under way: its name and arguments
    ret,                \* what the call returned or raised, NoRet before it ran
    first_metrics,      \* the first SOTAMetrics the caller received, if any
    calls,              \* how many calls the caller has made
    session_state,      \* st.session_state of the user interface
    state,              \* StateManager._state of the analysis service
    pipeline            \* the analysis service's background task

vars == <<shots, target_center, target_ring_radii, call, ret,
          first_metrics, calls, session_state, state, pipeline>>

-----------------------------------------------------------------------------
(* Bounds of the model *)

GridMax == 2          \* shot coordinates are drawn from 0..GridMax
MaxShots == 4         \* longest shot list of the detector specification
Scale == 100          \* fixed-point resolution: 1/Scale
ThresholdDen == 2     \* thresholds are multiples of 1/ThresholdDen
MaxThreshold == 3     \* largest threshold numerator tried
MaxScoredShots == 2   \* longest shot list of the scoring specification
MaxCenter == 1        \* target centers are (c, c), c in 0..MaxCenter
MaxRadius == 2        \* ring radii are drawn from 1..MaxRadius
MaxRings == 2         \* longest list of ring radii
MaxGroupShots == 3    \* longest shot list given to the aggregator
MaxSeqShots == 3      \* longest shot list of the sequential specification

Coords == 0..GridMax
Thresholds == {-ThresholdDen, 0, 1, MaxThreshold}

-----------------------------------------------------------------------------
(* Optional values: None, or a value wrapped in a one-element sequence *)

None == <<>>
Some(v) == <<v>>
IsNone(o) == o = <<>>
Val(o) == o[1]

-----------------------------------------------------------------------------
(* Arithmetic helpers *)

RECURSIVE ISqrtBetween(_, _, _)
ISqrtBetween(v, lo, hi) ==
    IF lo >= hi THEN lo
    ELSE LET mid == (lo + hi + 1) \div 2
         IN  IF mid * mid <= v THEN ISqrtBetween(v, mid, hi)
                               ELSE ISqrtBetween(v, lo, mid - 1)

\* floor of the square root of a non-negative integer (np.sqrt, np.linalg.norm)
ISqrt(v) ==
    ISqrtBetween(v, 0, IF v < 256 THEN 15
                       ELSE IF v < 65536 THEN 255
                       ELSE IF v < 16777216 THEN 4095
                       ELSE 46340)

RECURSIVE SumSeq(_)
SumSeq(s) == IF s = <<>> THEN 0 ELSE Head(s) + SumSeq(Tail(s))

RECURSIVE MaxSeq(_)
MaxSeq(s) == IF Len(s) = 1 THEN s[1]
             ELSE LET m == MaxSeq(Tail(s)) IN IF s[1] >= m THEN s[1] ELSE m

RECURSIVE MinSeq(_)
MinSeq(s) == IF Len(s) = 1 THEN s[1]
             ELSE LET m == MinSeq(Tail(s)) IN IF s[1] <= m THEN s[1] ELSE m

Abs(a) == IF a < 0 THEN -a ELSE a

\* the list with entries f[1], ..., f[n], each computed once
List(f) == f \o <<>>

\* the positions 1..n as a sequence (enumerate)
Positions(s) == List([i \in 1..Len(s) |-> i])

-----------------------------------------------------------------------------
(* models.py *)

\* Shot(x=x, y=y): the metadata fields take the dataclass defaults
Shot(x, y) ==
    [x |-> x, y |-> y, confidence |-> 0, frame_index |-> None, timestamp |-> None]

Point(x, y) == [x |-> x, y |-> y]

-----------------------------------------------------------------------------
(* Outcomes of a call *)

NoCall == [op |-> "none"]
NoRet == [kind |-> "none"]
Raise(error) == [kind |-> "raise", error |-> error]

\* try: ... except Exception as e: raise AnalysisError(...)
\* Every exception of the package derives from Exception, so whatever the body
\* raised leaves the function as AnalysisError.
ExceptAsAnalysisError(outcome) ==
    IF outcome.kind = "raise" THEN Raise("AnalysisError") ELSE outcome

-----------------------------------------------------------------------------
(* Flyer detection, metrics.py *)

\* (good_shots, flyer_shots)
GoodAndFlyers(good, flyers) == [kind |-> "return", good |-> good, flyers |-> flyers]

\* return shots, []
AllGood(s) == GoodAndFlyers(Positions(s), <<>>)

\* Mutant of Partition: the else branch is lost, every shot is appended to good_shots
Partition_NoElse(s, accept) ==
    GoodAndFlyers(Positions(s), SelectSeq(Positions(s), LAMBDA i : ~accept[i]))

\* for i, shot in enumerate(shots):
\*     if <accept[i]>: good_shots.append(shot) else: flyer_shots.append(shot)
Partition(s, accept) ==
    LET a == List(accept)
    IN  GoodAndFlyers(SelectSeq(Positions(s), LAMBDA i : a[i]),
                      SelectSeq(Positions(s), LAMBDA i : ~a[i]))

SumX(s) == SumSeq(List([i \in 1..Len(s) |-> s[i].x]))
SumY(s) == SumSeq(List([i \in 1..Len(s) |-> s[i].y]))

\* floor(Scale * Scale * a / d), computed without leaving 32 bits
ScaledSquare(a, d) ==
    Scale * Scale * (a \div d) + (Scale * Scale * (a % d)) \div d

\* distances = [np.linalg.norm(coord - center) for coord in coords], with
\* center = np.mean(coords, axis=0): entry i is floor(Scale * distance)
CentroidDistances(s) ==
    LET n == Len(s)
        sx == SumX(s)
        sy == SumY(s)
    IN  List([i \in 1..n |->
            ISqrt(ScaledSquare((n * s[i].x - sx) * (n * s[i].x - sx)
                                 + (n * s[i].y - sy) * (n * s[i].y - sy),
                               n * n))])

\* floor(n * np.std(d)) for a sequence d of n fixed-point values
StdTimesN(d) ==
    LET n == Len(d)
        total == SumSeq(d)
    IN  ISqrt(SumSeq(List([i \in 1..n |-> (n * d[i] - total) * (n * d[i] - total)])) \div n)

\* den * np.percentile(d, 100 * num / den), numpy's linear interpolation
PercentileTimes(d, num, den) ==
    LET a == SortSeq(d, LAMBDA u, v : u < v)
        pos == num * (Len(d) - 1)
        lo == pos \div den
        frac == pos % den
    IN  IF frac = 0 THEN den * a[lo + 1]
        ELSE den * a[lo + 1] + frac * (a[lo + 2] - a[lo + 1])

\* Mutant of _detect_flyers_std_dev: the comparison is turned round
_detect_flyers_std_dev_Inverted(s, threshold) ==
    LET distances == CentroidDistances(s)
        n == Len(s)
        mean_dist_n == SumSeq(distances)
        std_dist_n == StdTimesN(distances)
    IN  Partition(s, [i \in 1..n |->
            ThresholdDen * n * distances[i]
                >= ThresholdDen * mean_dist_n + threshold * std_dist_n])

_detect_flyers_std_dev(s, threshold) ==
    LET distances == CentroidDistances(s)
        n == Len(s)
        mean_dist_n == SumSeq(distances)
        std_dist_n == StdTimesN(distances)
    IN  Partition(s, [i \in 1..n |->
            ThresholdDen * n * distances[i]
                <= ThresholdDen * mean_dist_n + threshold * std_dist_n])

_detect_flyers_iqr(s, threshold) ==
    LET distances == CentroidDistances(s)
        q1x4 == PercentileTimes(distances, 1, 4)
        q3x4 == PercentileTimes(distances, 3, 4)
        iqrx4 == q3x4 - q1x4
    IN  Partition(s, [i \in 1..Len(s) |->
            /\ ThresholdDen * q1x4 - threshold * iqrx4 <= 4 * ThresholdDen * distances[i]
            /\ 4 * ThresholdDen * distances[i] <= ThresholdDen * q3x4 + threshold * iqrx4])

\* Mutant of _detect_flyers_distance: a shot on the bound is rejected
_detect_flyers_distance_Strict(s, threshold) ==
    LET distances == CentroidDistances(s)
        n == Len(s)
        mean_distance_n == SumSeq(distances)
    IN  Partition(s, [i \in 1..n |->
            ThresholdDen * n * distances[i] < mean_distance_n * threshold])

_detect_flyers_distance(s, threshold) ==
    LET distances == CentroidDistances(s)
        n == Len(s)
        mean_distance_n == SumSeq(distances)
    IN  Partition(s, [i \in 1..n |->
            ThresholdDen * n * distances[i] <= mean_distance_n * threshold])

(* scipy.spatial.ConvexHull(coords) in the plane *)

\* twice the signed area of the triangle a, b, c
Cross(a, b, c) == (b.x - a.x) * (c.y - a.y) - (b.y - a.y) * (c.x - a.x)

Dot(a, b, c) == (b.x - a.x) * (c.x - a.x) + (b.y - a.y) * (c.y - a.y)

Norm2(a, b) == (b.x - a.x) * (b.x - a.x) + (b.y - a.y) * (b.y - a.y)

\* Qhull raises QhullError when the input has no three points that span the
\* plane (fewer than three points, or all of them on one line)
QhullFails(s) ==
    \A i, j, k \in 1..Len(s) : Cross(s[i], s[j], s[k]) = 0

\* the first position that holds the coordinates of position i
FirstAt(s, i) == CHOOSE k \in 1..i : s[k].x = s[i].x /\ s[k].y = s[i].y /\
                    \A m \in 1..(k - 1) : ~(s[m].x = s[i].x /\ s[m].y = s[i].y)

\* <<i, j>> is a facet of the hull: no input point lies strictly on one of the
\* two sides of the line through i and j, nor on that line outside the segment
IsHullEdge(s, i, j) ==
    /\ Norm2(s[i], s[j]) > 0
    /\ \/ \A k \in 1..Len(s) : Cross(s[i], s[j], s[k]) >= 0
       \/ \A k \in 1..Len(s) : Cross(s[i], s[j], s[k]) <= 0
    /\ \A k \in 1..Len(s) :
          Cross(s[i], s[j], s[k]) = 0 =>
              /\ Dot(s[i], s[j], s[k]) >= 0
              /\ Dot(s[i], s[j], s[k]) <= Norm2(s[i], s[j])

\* the pairs <<i, j>> of positions of s, i < j, in lexicographic order
PositionPairs(s) ==
    LET n == Len(s)
    IN  SelectSeq(List([k \in 1..(n * n) |-> <<((k - 1) \div n) + 1, ((k - 1) % n) + 1>>]),
                  LAMBDA e : e[1] < e[2])

\* hull.simplices: the hull's edges, each a pair of input positions
Simplices(s) ==
    SelectSeq(PositionPairs(s), LAMBDA e :
        /\ FirstAt(s, e[1]) = e[1]
        /\ FirstAt(s, e[2]) = e[2]
        /\ IsHullEdge(s, e[1], e[2]))

\* floor(Scale * distance from point to the segment line_start..line_end)
_point_to_line_distance(point, line_start, line_end) ==
    LET len2 == Norm2(line_start, line_end)
        pv2 == Norm2(line_start, point)
        dot == Dot(line_start, line_end, point)
    IN  IF len2 = 0 THEN ISqrt(Scale * Scale * pv2)
        ELSE IF dot <= 0 THEN ISqrt(Scale * Scale * pv2)                 \* t = 0
        ELSE IF dot >= len2 THEN ISqrt(Scale * Scale * Norm2(line_end, point)) \* t = 1
        ELSE ISqrt((Scale * Scale * (pv2 * len2 - dot * dot)) \div len2)

Min2(a, b) == IF a <= b THEN a ELSE b

\* Mutant of _distance_to_convex_hull: the largest edge distance is returned
_distance_to_convex_hull_Max(point, simplices, s) ==
    MaxSeq(List([k \in 1..Len(simplices) |->
        _point_to_line_distance(point, s[simplices[k][1]], s[simplices[k][2]])]))

\* for simplex in hull.simplices: for i in range(2): for j in range(i+1, 3),
\* j taken modulo 2: the pairs (0,1), (0,0) and (1,0) of each simplex
_distance_to_convex_hull(point, simplices, s) ==
    MinSeq(List([k \in 1..Len(simplices) |->
        LET v1 == s[simplices[k][1]]
            v2 == s[simplices[k][2]]
        IN  Min2(_point_to_line_distance(point, v1, v2),
                 Min2(_point_to_line_distance(point, v1, v1),
                      _point_to_line_distance(point, v2, v1)))]))

\* Mutant of _detect_flyers_convex_hull: the minimum is taken to be 3 shots
_detect_flyers_convex_hull_Min3(s, threshold) ==
    IF Len(s) < 3 THEN AllGood(s)
    ELSE IF QhullFails(s) THEN AllGood(s)
    ELSE LET hull == Simplices(s)
         IN  Partition(s, [i \in 1..Len(s) |->
                 ThresholdDen * _distance_to_convex_hull(s[i], hull, s)
                     <= threshold * Scale])

_detect_flyers_convex_hull(s, threshold) ==
    IF Len(s) < 4 THEN AllGood(s)
    ELSE IF QhullFails(s) THEN AllGood(s)       \* except Exception: return shots, []
    ELSE LET hull == Simplices(s)
         IN  Partition(s, [i \in 1..Len(s) |->
                 ThresholdDen * _distance_to_convex_hull(s[i], hull, s)
                     <= threshold * Scale])

\* Mutant of detect_flyers: an unknown method falls back to the default method
detect_flyers_DefaultMethod(s, method, threshold) ==
    IF Len(s) < 3 THEN AllGood(s)
    ELSE IF method = "iqr" THEN _detect_flyers_iqr(s, threshold)
    ELSE IF method = "convex_hull" THEN _detect_flyers_convex_hull(s, threshold)
    ELSE IF method = "distance" THEN _detect_flyers_distance(s, threshold)
    ELSE _detect_flyers_std_dev(s, threshold)

detect_flyers(s, method, threshold) ==
    IF Len(s) < 3 THEN AllGood(s)
    ELSE IF method = "std_dev" THEN _detect_flyers_std_dev(s, threshold)
    ELSE IF method = "iqr" THEN _detect_flyers_iqr(s, threshold)
    ELSE IF method = "convex_hull" THEN _detect_flyers_convex_hull(s, threshold)
    ELSE IF method = "distance" THEN _detect_flyers_distance(s, threshold)
    ELSE AllGood(s)

-----------------------------------------------------------------------------
(* Scoring, metrics.py *)

\* Mutant of distance_to: the shot's confidence is added to its distance
distance_to_PlusConfidence(a, b) == ISqrt(Scale * Scale * Norm2(a, b)) + a.confidence

\* shot.distance_to(other): floor(Scale * distance)
distance_to(a, b) == ISqrt(Scale * Scale * Norm2(a, b))

\* for i, radius in enumerate(ring_radii), from the i-th radius on (1-based):
\*     if distance <= radius: return len(ring_radii) - i
\* return len(ring_radii) + 1
RECURSIVE ScoreFrom(_, _, _)
ScoreFrom(distance, ring_radii, i) ==
    IF i > Len(ring_radii) THEN Len(ring_radii) + 1
    ELSE IF distance <= Scale * ring_radii[i] THEN Len(ring_radii) - (i - 1)
    ELSE ScoreFrom(distance, ring_radii, i + 1)

\* Mutant of _calculate_shot_score: a shot on a ring's radius is outside the ring
_calculate_shot_score_Exclusive(distance, ring_radii) ==
    LET inside == {k \in 1..Len(ring_radii) : distance < Scale * ring_radii[k]}
    IN  IF inside = {} THEN Len(ring_radii) + 1
        ELSE Len(ring_radii) - ((CHOOSE k \in inside : \A m \in inside : k <= m) - 1)

_calculate_shot_score(distance, ring_radii) == ScoreFrom(distance, ring_radii, 1)

\* a Python list index: a negative index counts from the end (1-based result)
PyIndex(idx, length) == IF idx >= 0 THEN idx + 1 ELSE length + idx + 1

\* Mutant of HitBucket: the innermost ring's score is taken for a miss
HitBucket_InnermostAsMiss(score, rings) ==
    IF score < rings THEN PyIndex(score - 1, rings + 1) ELSE PyIndex(-1, rings + 1)

\* if score <= len(ring_radii): hit_distribution[score - 1] += 1
\* else: hit_distribution[-1] += 1
HitBucket(score, rings) ==
    IF score <= rings THEN PyIndex(score - 1, rings + 1) ELSE PyIndex(-1, rings + 1)

HitDistribution(shot_scores, rings) ==
    List([b \in 1..(rings + 1) |->
        Cardinality({k \in 1..Len(shot_scores) : HitBucket(shot_scores[k], rings) = b})])

ScoringMetrics(shot_scores, rings) ==
    LET n == Len(shot_scores)
    IN  [kind |-> "return",
         total_score |-> SumSeq(shot_scores),
         average_score |-> (Scale * SumSeq(shot_scores)) \div n,
         max_score |-> MaxSeq(shot_scores),
         min_score |-> MinSeq(shot_scores),
         score_std |-> StdTimesN(List([k \in 1..n |-> Scale * shot_scores[k]])) \div n,
         shot_scores |-> shot_scores,
         hit_distribution |-> HitDistribution(shot_scores, rings)]

\* the body of the try block
ScoringBody(s, center, ring_radii) ==
    IF IsNone(ring_radii) THEN Raise("TypeError")           \* len(None) in the log line
    ELSE IF s = <<>> \/ Val(ring_radii) = <<>> THEN Raise("InsufficientDataError")
    ELSE IF IsNone(center) THEN Raise("AttributeError")     \* None.x
    ELSE ScoringMetrics(
            List([k \in 1..Len(s) |->
                _calculate_shot_score(distance_to(s[k], Val(center)), Val(ring_radii))]),
            Len(Val(ring_radii)))

calculate_scoring_metrics(s, center, ring_radii) ==
    ExceptAsAnalysisError(ScoringBody(s, center, ring_radii))

-----------------------------------------------------------------------------
(* statistics.py: each operation returns a value or raises *)

Return(value) == [kind |-> "return", value |-> value]

\* floor(Scale * np.std(v)) of a list v of integers
StdOf(v) == StdTimesN(List([k \in 1..Len(v) |-> Scale * v[k]])) \div Len(v)

\* Point(x=float(mpi_x), y=float(mpi_y)), each floor(Scale * mean)
MpiBody(s) ==
    IF s = <<>> THEN Raise("InsufficientDataError")
    ELSE Return(Point((Scale * SumX(s)) \div Len(s), (Scale * SumY(s)) \div Len(s)))

calculate_mean_point_of_impact(s) == ExceptAsAnalysisError(MpiBody(s))

\* Mutant of ExtremeSpreadBody: only shots next to each other in the list are compared
ExtremeSpreadBody_Adjacent(s) ==
    IF Len(s) < 2 THEN Raise("InsufficientDataError")
    ELSE Return(ISqrt(Scale * Scale *
            MaxSeq(List([k \in 1..(Len(s) - 1) |-> Norm2(s[k], s[k + 1])]))))

\* np.max(scipy_distance.pdist(coords))
ExtremeSpreadBody(s) ==
    IF Len(s) < 2 THEN Raise("InsufficientDataError")
    ELSE Return(ISqrt(Scale * Scale *
            MaxSeq(List([k \in 1..(Len(s) * Len(s)) |->
                Norm2(s[((k - 1) \div Len(s)) + 1], s[((k - 1) % Len(s)) + 1])]))))

calculate_extreme_spread(s) == ExceptAsAnalysisError(ExtremeSpreadBody(s))

\* the center is the MPI of the same shots, by default or as the caller passes it
MeanRadiusBody(s) ==
    IF s = <<>> THEN Raise("InsufficientDataError")
    ELSE Return(SumSeq(CentroidDistances(s)) \div Len(s))

calculate_mean_radius(s) == ExceptAsAnalysisError(MeanRadiusBody(s))

\* np.std(coords, axis=0): (std_dev_x, std_dev_y)
StandardDeviationsBody(s) ==
    IF s = <<>> THEN Raise("InsufficientDataError")
    ELSE Return(<<StdOf(List([k \in 1..Len(s) |-> s[k].x])),
                  StdOf(List([k \in 1..Len(s) |-> s[k].y]))>>)

calculate_standard_deviations(s) == ExceptAsAnalysisError(StandardDeviationsBody(s))

\* 1000 * stats.t.ppf(0.975, degrees_freedom): the critical value at the
\* default confidence 0.95
TCritical(degrees_freedom) ==
    CASE degrees_freedom = 2 -> 4303
      [] degrees_freedom = 3 -> 3182
      [] degrees_freedom = 4 -> 2776
      [] degrees_freedom = 5 -> 2571
      [] degrees_freedom = 6 -> 2447
      [] degrees_freedom = 7 -> 2365

\* floor(Scale * stats.sem(v)): the sample deviation (ddof=1) over sqrt(n)
SemOf(v) ==
    LET n == Len(v)
        total == SumSeq(v)
        squares == SumSeq(List([k \in 1..n |-> v[k] * v[k]]))
    IN  ISqrt((Scale * Scale * (n * squares - total * total)) \div (n * n * (n - 1)))

\* (mean - margin, mean + margin), margin = t_critical * std_error
IntervalOf(v) ==
    LET mean == (Scale * SumSeq(v)) \div Len(v)
        margin == (TCritical(Len(v) - 1) * SemOf(v)) \div 1000
    IN  <<mean - margin, mean + margin>>

ConfidenceIntervalsBody(s) ==
    IF Len(s) < 3 THEN Raise("InsufficientDataError")
    ELSE Return([x |-> IntervalOf(List([k \in 1..Len(s) |-> s[k].x])),
                 y |-> IntervalOf(List([k \in 1..Len(s) |-> s[k].y]))])

\* confidence is left at its default, 0.95
calculate_confidence_intervals(s) == ExceptAsAnalysisError(ConfidenceIntervalsBody(s))

\* hull.area: of a hull in the plane scipy gives the perimeter under this name
HullArea(s) ==
    LET hull == Simplices(s)
    IN  SumSeq(List([k \in 1..Len(hull) |-> distance_to(s[hull[k][1]], s[hull[k][2]])]))

ConvexHullAreaBody(s) ==
    IF Len(s) < 3 THEN Raise("InsufficientDataError")
    ELSE IF QhullFails(s) THEN Raise("QhullError")
    ELSE Return(HullArea(s))

calculate_convex_hull_area(s) == ExceptAsAnalysisError(ConvexHullAreaBody(s))

-----------------------------------------------------------------------------
(* Group characteristics and sequential metrics, metrics.py *)

\* the first of the outcomes, in the order of the calls, that is a raise
RECURSIVE FirstRaise(_, _)
FirstRaise(outcomes, otherwise) ==
    IF outcomes = <<>> THEN otherwise
    ELSE IF Head(outcomes).kind = "raise" THEN Head(outcomes)
    ELSE FirstRaise(Tail(outcomes), otherwise)

\* np.percentile(distances, probability * 100), probability = num / den
_calculate_circular_error_probable(s, num, den) ==
    PercentileTimes(CentroidDistances(s), num, den) \div den

\* (extreme_spread / mean_radius) * 100; a raise inside returns 0.0
_calculate_figure_of_merit(s) ==
    LET extreme_spread == calculate_extreme_spread(s)
        mean_radius == calculate_mean_radius(s)
    IN  IF Len(s) < 3 THEN 0
        ELSE IF extreme_spread.kind = "raise" \/ mean_radius.kind = "raise" THEN 0
        ELSE IF mean_radius.value > 0
             THEN (100 * Scale * extreme_spread.value) \div mean_radius.value
        ELSE 0

\* the characteristics dictionary; a key the code does not set is None
GroupCharacteristicsBody(s) ==
    LET mpi == calculate_mean_point_of_impact(s)
        extreme_spread == calculate_extreme_spread(s)
        mean_radius == calculate_mean_radius(s)
        std_devs == calculate_standard_deviations(s)
        cep(num, den) == IF Len(s) >= 3
                         THEN Some(_calculate_circular_error_probable(s, num, den))
                         ELSE None
    IN  IF s = <<>> THEN Raise("InsufficientDataError")
        ELSE FirstRaise(<<mpi, extreme_spread, mean_radius, std_devs>>,
               Return([total_shots |-> Len(s),
                       mpi |-> mpi.value,
                       extreme_spread |-> extreme_spread.value,
                       mean_radius |-> mean_radius.value,
                       std_dev_x |-> std_devs.value[1],
                       std_dev_y |-> std_devs.value[2],
                       combined_std_dev |->
                           ISqrt(std_devs.value[1] * std_devs.value[1]
                                 + std_devs.value[2] * std_devs.value[2]),
                       cep_50 |-> cep(1, 2),
                       cep_90 |-> cep(9, 10),
                       cep_95 |-> cep(19, 20),
                       figure_of_merit |-> _calculate_figure_of_merit(s)]))

calculate_group_characteristics(s) == ExceptAsAnalysisError(GroupCharacteristicsBody(s))

\* sorted(shots, key=...): the positions by key, equal keys in the list's order
SortedBy(s, keys) ==
    LET k == List(keys)
        order == SortSeq(Positions(s),
                         LAMBDA i, j : k[i] < k[j] \/ (k[i] = k[j] /\ i < j))
    IN  List([i \in 1..Len(s) |-> s[order[i]]])

\* Mutant of SortedShots: the frame index is looked at before the timestamp
SortedShots_FrameFirst(s) ==
    IF \A i \in 1..Len(s) : ~IsNone(s[i].frame_index)
    THEN SortedBy(s, [i \in 1..Len(s) |-> Val(s[i].frame_index)])
    ELSE IF \A i \in 1..Len(s) : ~IsNone(s[i].timestamp)
    THEN SortedBy(s, [i \in 1..Len(s) |-> Val(s[i].timestamp)])
    ELSE s

\* by timestamp if every shot has one, else by frame_index if every shot has
\* one, else the caller's order
SortedShots(s) ==
    IF \A i \in 1..Len(s) : ~IsNone(s[i].timestamp)
    THEN SortedBy(s, [i \in 1..Len(s) |-> Val(s[i].timestamp)])
    ELSE IF \A i \in 1..Len(s) : ~IsNone(s[i].frame_index)
    THEN SortedBy(s, [i \in 1..Len(s) |-> Val(s[i].frame_index)])
    ELSE s

\* Mutant of DistanceToMpi: the distance to the group's first shot, not to its mean
DistanceToMpi_FirstOfGroup(shot, group) == distance_to(shot, group[1])

\* shot.distance_to(Shot(x=mpi.x, y=mpi.y)), mpi the mean point of a non-empty group
DistanceToMpi(shot, group) ==
    LET m == Len(group)
        dx == m * shot.x - SumX(group)
        dy == m * shot.y - SumY(group)
    IN  ISqrt((Scale * Scale * (dx * dx + dy * dy)) \div (m * m))

\* Scale * r_value ** 2 of stats.linregress(np.arange(len(v)), v); r is 0.0
\* when v has no variance
RSquared(v) ==
    LET n == Len(v)
        si == SumSeq(List([k \in 1..n |-> k - 1]))
        sii == SumSeq(List([k \in 1..n |-> (k - 1) * (k - 1)]))
        sv == SumSeq(v)
        svv == SumSeq(List([k \in 1..n |-> v[k] * v[k]]))
        siv == SumSeq(List([k \in 1..n |-> (k - 1) * v[k]]))
        ssxm == n * sii - si * si
        ssym == n * svv - sv * sv
        ssxym == n * siv - si * sv
    IN  IF ssxm = 0 \/ ssym = 0 THEN 0
        ELSE (Scale * ssxym * ssxym) \div (ssxm * ssym)

\* Mutant of _calculate_trend_stability: the two R-squared are added, not averaged
_calculate_trend_stability_Sum(s) ==
    IF Len(s) < 3 THEN Scale
    ELSE RSquared(List([k \in 1..Len(s) |-> s[k].x]))
         + RSquared(List([k \in 1..Len(s) |-> s[k].y]))

_calculate_trend_stability(s) ==
    IF Len(s) < 3 THEN Scale
    ELSE (RSquared(List([k \in 1..Len(s) |-> s[k].x]))
          + RSquared(List([k \in 1..Len(s) |-> s[k].y]))) \div 2

SequentialMetricsBody(s) ==
    LET sorted_shots == SortedShots(s)
        n == Len(s)
        shot_displacements ==
            List([i \in 1..(n - 1) |->
                    DistanceToMpi(sorted_shots[i + 1], SubSeq(sorted_shots, 1, i))])
    IN  IF n < 2 THEN Raise("InsufficientDataError")
        ELSE Return([first_shot_displacement |->
                         DistanceToMpi(sorted_shots[1], Tail(sorted_shots)),
                     shot_to_shot_displacement |->
                         SumSeq(shot_displacements) \div (n - 1),
                     max_shot_displacement |-> MaxSeq(shot_displacements),
                     min_shot_displacement |-> MinSeq(shot_displacements),
                     shot_displacement_std |->
                         StdTimesN(shot_displacements) \div (n - 1),
                     trend_stability |-> _calculate_trend_stability(sorted_shots)])

calculate_sequential_metrics(s) == ExceptAsAnalysisError(SequentialMetricsBody(s))

-----------------------------------------------------------------------------
(* The aggregator, metrics.py *)

\* detect_flyers(shots): method='std_dev', threshold=2.0
DefaultThreshold == 2 * ThresholdDen

\* SOTAMetrics(), every field at its default
SOTAMetrics ==
    [kind |-> "return", total_shots |-> 0, mpi |-> None,
     extreme_spread |-> 0, mean_radius |-> 0, convex_hull_area |-> 0,
     std_dev_x |-> 0, std_dev_y |-> 0,
     first_shot_displacement |-> 0, shot_to_shot_displacement |-> 0,
     flyer_count |-> 0, total_score |-> 0, average_score |-> 0]

\* Mutant of HasTarget: the ring radii are not looked at
HasTarget_CenterOnly(center, ring_radii) == ~IsNone(center)

\* if shot_group.target_center and shot_group.target_ring_radii
HasTarget(center, ring_radii) ==
    ~IsNone(center) /\ ~IsNone(ring_radii) /\ Val(ring_radii) # <<>>

\* the body of the try block; a step the code skips leaves the defaults
SotaMetricsBody(s, center, ring_radii) ==
    LET group_chars == calculate_group_characteristics(s)
        hull == IF Len(s) >= 3 THEN calculate_convex_hull_area(s) ELSE Return(0)
        sequential == IF Len(s) >= 2 THEN calculate_sequential_metrics(s)
                      ELSE Return([first_shot_displacement |-> 0,
                                   shot_to_shot_displacement |-> 0])
        detected == detect_flyers(s, "std_dev", DefaultThreshold)
        scoring == IF HasTarget(center, ring_radii)
                   THEN calculate_scoring_metrics(s, center, ring_radii)
                   ELSE [kind |-> "return", total_score |-> 0, average_score |-> 0]
    IN  IF s = <<>> THEN Raise("InsufficientDataError")
        ELSE FirstRaise(<<group_chars, hull, sequential, detected, scoring>>,
               [SOTAMetrics EXCEPT
                   !.total_shots = Len(s),
                   !.mpi = Some(group_chars.value.mpi),
                   !.extreme_spread = group_chars.value.extreme_spread,
                   !.mean_radius = group_chars.value.mean_radius,
                   !.std_dev_x = group_chars.value.std_dev_x,
                   !.std_dev_y = group_chars.value.std_dev_y,
                   !.convex_hull_area = hull.value,
                   !.first_shot_displacement = sequential.value.first_shot_displacement,
                   !.shot_to_shot_displacement = sequential.value.shot_to_shot_displacement,
                   !.flyer_count = Len(detected.flyers),
                   !.total_score = scoring.total_score,
                   !.average_score = scoring.average_score])

calculate_comprehensive_sota_metrics(s, center, ring_radii) ==
    ExceptAsAnalysisError(SotaMetricsBody(s, center, ring_radii))

-----------------------------------------------------------------------------
(* What a call leaves in the list it was given *)

\* Mutant of ShotsAfterSorted: the list is sorted in place (shots.sort(key=...))
ShotsAfterSorted_InPlace(s) == SortedShots(s)

\* sorted_shots = sorted(shots, key=...) or sorted_shots = shots: sorted()
\* builds a new list, and nothing is assigned through either name
ShotsAfterSorted(s) == s

\* Mutant of ShotsAfterDetection: the flyers are removed from the list given
ShotsAfterDetection_Filtered(s, method, threshold) ==
    LET detected == detect_flyers(s, method, threshold)
    IN  List([i \in 1..Len(detected.good) |-> s[detected.good[i]]])

\* good_shots = [] and flyer_shots = [] are new lists, filled by append; the
\* list given is only read
ShotsAfterDetection(s, method, threshold) == s

-----------------------------------------------------------------------------
(* The state outside the engine, as constructed.  The numbers the user       *)
(* interface stores (thresholds, a confidence) are carried, as the engine's  *)
(* thresholds are, as numerators over ThresholdDen.                          *)

\* ui_layer/state_management.py, StateManager._initialize_session_state
\* (session_id and session_created_at, which nothing modelled reads, are left out)
InitialSessionState ==
    [shots |-> <<>>,
     filtered_shots |-> <<>>,
     current_image |-> None,
     mpi |-> None,
     analysis_mode |-> "Local Files",
     duplicate_threshold |-> 15 * ThresholdDen,
     min_confidence |-> ThresholdDen \div 2,
     outlier_method |-> "None",
     outlier_threshold |-> 2 * ThresholdDen,
     analysis_history |-> <<>>]

\* services/analysis/state_manager.py, AnalysisState(): object numbers the
\* AnalysisState objects in the order of their construction
AnalysisState ==
    [object |-> 0, status |-> "IDLE", session_id |-> "", shots |-> <<>>]

\* services/analysis/main.py, analysis_pipeline at its first statement
PipelineStarted == [pc |-> "check", frame_data |-> None]

outside_engine == <<first_metrics, calls, session_state, state, pipeline>>

AsConstructed ==
    /\ first_metrics = None
    /\ calls = 0
    /\ session_state = InitialSessionState
    /\ state = AnalysisState
    /\ pipeline = PipelineStarted

-----------------------------------------------------------------------------
(* The input domain: shot lists over the grid.  Every detection method reads *)
(* the list through its centroid, its sorted distances or its hull, none of  *)
(* which depends on the order of the shots, so the lists are enumerated in   *)
(* one order each; distinct says whether two shots may share a position.     *)

Before(p, q) == p.x < q.x \/ (p.x = q.x /\ p.y < q.y)

SamePlace(p, q) == p.x = q.x /\ p.y = q.y

GridShots == {Shot(x, y) : x \in Coords, y \in Coords}

RECURSIVE ShotListsOfLen(_, _)
ShotListsOfLen(n, distinct) ==
    IF n = 0 THEN {<<>>}
    ELSE UNION {{Append(s, p) :
                    p \in {q \in GridShots :
                             \/ s = <<>>
                             \/ Before(s[Len(s)], q)
                             \/ (~distinct /\ SamePlace(s[Len(s)], q))}} :
                s \in ShotListsOfLen(n - 1, distinct)}

ShotLists(maxLen, distinct) == UNION {ShotListsOfLen(n, distinct) : n \in 0..maxLen}

Methods == {"std_dev", "iqr", "convex_hull", "distance", "invalid_method"}

-----------------------------------------------------------------------------
(* Specification of the detector *)

Init ==
    /\ shots \in ShotLists(MaxShots, TRUE)
    /\ target_center = None
    /\ target_ring_radii = None
    /\ call \in [op : {"detect_flyers"}, method : Methods, threshold : Thresholds]
    /\ ret = NoRet
    /\ AsConstructed

\* good_shots, flyer_shots = calculator.detect_flyers(shots, method, threshold)
DetectFlyers ==
    /\ call.op = "detect_flyers"
    /\ ret = NoRet
    /\ ret' = ExceptAsAnalysisError(detect_flyers(shots, call.method, call.threshold))
    /\ shots' = ShotsAfterDetection(shots, call.method, call.threshold)
    /\ UNCHANGED <<target_center, target_ring_radii, call>>
    /\ UNCHANGED outside_engine

Next == DetectFlyers

Spec == Init /\ [][Next]_vars

-----------------------------------------------------------------------------
(* Properties of the detector *)

KnownMethods == {"std_dev", "iqr", "convex_hull", "distance"}

Detected == call.op = "detect_flyers" /\ ret.kind = "return"

Range(q) == {q[i] : i \in 1..Len(q)}

Increasing(q) == \A i \in 1..(Len(q) - 1) : q[i] < q[i + 1]

\* the distance metric of the shot at position i under a method
Metric(method, i) ==
    IF method = "convex_hull"
    THEN _distance_to_convex_hull(shots[i], Simplices(shots), shots)
    ELSE CentroidDistances(shots)[i]

\* C1: for each of the four methods, every threshold and every list of at
\* least 3 shots, detect_flyers returns two lists that together hold every
\* input shot exactly once, whose lengths add up to the input's length, and
\* each of which keeps the input's order.
C1_Partition ==
    (call.op = "detect_flyers" /\ ret # NoRet
        /\ call.method \in KnownMethods /\ Len(shots) >= 3) =>
    /\ ret.kind = "return"
    /\ Range(ret.good) \cup Range(ret.flyers) = 1..Len(shots)
    /\ Range(ret.good) \cap Range(ret.flyers) = {}
    /\ Len(ret.good) + Len(ret.flyers) = Len(shots)
    /\ Increasing(ret.good)
    /\ Increasing(ret.flyers)

\* a run where an accepted shot follows a rejected one and precedes another
C1_Witness ==
    /\ Detected
    /\ call.method \in KnownMethods
    /\ Len(shots) >= 3
    /\ \E i, j \in Range(ret.flyers), k \in Range(ret.good) : i < k /\ k < j

\* C2 as stated: under every method, every rejected shot's metric is
\* strictly greater than the metric of every accepted shot.
C2_RejectedBeyondAccepted ==
    (Detected /\ call.method \in KnownMethods /\ Len(shots) >= 3) =>
    \A r \in Range(ret.flyers), a \in Range(ret.good) :
        Metric(call.method, r) > Metric(call.method, a)

\* C2 amended: that holds under the deviation, hull and ratio methods; under
\* the quartile method every rejected shot's distance to the centroid is
\* either strictly greater than every accepted shot's or strictly smaller
\* than every accepted shot's.
C2_RejectedOutsideAccepted ==
    (Detected /\ call.method \in KnownMethods /\ Len(shots) >= 3) =>
    \A r \in Range(ret.flyers) :
        \/ \A a \in Range(ret.good) : Metric(call.method, r) > Metric(call.method, a)
        \/ /\ call.method = "iqr"
           /\ \A a \in Range(ret.good) : Metric(call.method, r) < Metric(call.method, a)

\* the quartile method rejects a shot that is nearer the centroid than an
\* accepted one
C2_Witness ==
    /\ Detected
    /\ call.method = "iqr"
    /\ Len(shots) >= 3
    /\ \E r \in Range(ret.flyers), a \in Range(ret.good) :
          Metric("iqr", r) < Metric("iqr", a)

C4_UnknownMethodAllAccepted ==
    (call.op = "detect_flyers" /\ ret # NoRet /\ call.method \notin KnownMethods) =>
    /\ ret.kind = "return"
    /\ ret.good = Positions(shots)
    /\ ret.flyers = <<>>

\* an unknown method on a list of which the default method rejects a shot
C4_Witness ==
    /\ Detected
    /\ call.method \notin KnownMethods
    /\ Len(shots) >= 3
    /\ _detect_flyers_std_dev(shots, call.threshold).flyers # <<>>

\* the quartile method's two bounds, each times 4 * ThresholdDen
QuartileBounds ==
    LET d == CentroidDistances(shots)
        q1x4 == PercentileTimes(d, 1, 4)
        q3x4 == PercentileTimes(d, 3, 4)
    IN  <<ThresholdDen * q1x4 - call.threshold * (q3x4 - q1x4),
          ThresholdDen * q3x4 + call.threshold * (q3x4 - q1x4)>>

LowerBound == QuartileBounds[1]
UpperBound == QuartileBounds[2]

\* the positions of the shots whose metric equals the method's acceptance bound
OnBound ==
    LET d == CentroidDistances(shots)
        n == Len(shots)
    IN  CASE call.method = "std_dev" ->
                LET bound == ThresholdDen * SumSeq(d) + call.threshold * StdTimesN(d)
                IN  {i \in 1..n : ThresholdDen * n * d[i] = bound}
          [] call.method = "iqr" ->
                LET bounds == QuartileBounds
                IN  {i \in 1..n : 4 * ThresholdDen * d[i] \in {bounds[1], bounds[2]}}
          [] call.method = "convex_hull" ->
                LET hull == Simplices(shots)
                IN  {i \in 1..n :
                        ThresholdDen * _distance_to_convex_hull(shots[i], hull, shots)
                            = call.threshold * Scale}
          [] call.method = "distance" ->
                LET bound == SumSeq(d) * call.threshold
                IN  {i \in 1..n : ThresholdDen * n * d[i] = bound}

\* the method runs its comparison on these shots
Compared ==
    /\ Detected
    /\ call.method \in KnownMethods
    /\ Len(shots) >= 3
    /\ call.method = "convex_hull" => (Len(shots) >= 4 /\ ~QhullFails(shots))

\* C19 as stated: in each of the four methods a shot whose metric equals the
\* acceptance bound exactly is accepted, never rejected.
C19_ShotOnBoundAccepted ==
    Compared => OnBound \subseteq Range(ret.good)

\* C19 amended: a shot whose metric equals the acceptance bound is accepted
\* under the deviation, hull and ratio methods; under the quartile method a
\* shot on either bound is accepted when the lower bound does not exceed the
\* upper one.
C19_ShotOnBoundOfIntervalAccepted ==
    (Compared /\ (call.method = "iqr" => LowerBound <= UpperBound)) =>
        OnBound \subseteq Range(ret.good)

\* the quartile method with a shot on a bound of a proper interval that is
\* accepted while another shot is rejected
C19_Witness ==
    /\ Compared
    /\ call.method = "iqr"
    /\ LowerBound < UpperBound
    /\ OnBound \cap Range(ret.good) # {}
    /\ ret.flyers # <<>>

\* the shot at position i lies on the boundary of the convex hull of the shots:
\* on a segment between two shots that has every shot on one of its sides
OnHullBoundary(i) ==
    \E a, b \in 1..Len(shots) :
        /\ Norm2(shots[a], shots[b]) > 0
        /\ \/ \A k \in 1..Len(shots) : Cross(shots[a], shots[b], shots[k]) >= 0
           \/ \A k \in 1..Len(shots) : Cross(shots[a], shots[b], shots[k]) <= 0
        /\ Cross(shots[a], shots[b], shots[i]) = 0
        /\ Dot(shots[a], shots[b], shots[i]) >= 0
        /\ Dot(shots[a], shots[b], shots[i]) <= Norm2(shots[a], shots[b])

\* the shot at position i is a corner of the hull: on its boundary and not
\* between two other shots
IsHullVertex(i) ==
    /\ OnHullBoundary(i)
    /\ ~\E a, b \in 1..Len(shots) :
          /\ Cross(shots[a], shots[b], shots[i]) = 0
          /\ Dot(shots[a], shots[b], shots[i]) > 0
          /\ Dot(shots[a], shots[b], shots[i]) < Norm2(shots[a], shots[b])

HullDetected ==
    /\ Detected
    /\ call.method = "convex_hull"
    /\ Len(shots) >= 4
    /\ ~QhullFails(shots)

-----------------------------------------------------------------------------
(* Specification of the scoring engine *)

TargetCenters == {None} \cup {Some(Point(c, c)) : c \in 0..MaxCenter}

RECURSIVE RadiiOfLen(_)
RadiiOfLen(n) ==
    IF n = 0 THEN {<<>>}
    ELSE {Append(r, radius) : r \in RadiiOfLen(n - 1), radius \in 1..MaxRadius}

RingRadiiLists == {None} \cup {Some(r) : r \in UNION {RadiiOfLen(n) : n \in 0..MaxRings}}

InitScoring ==
    /\ shots \in ShotLists(MaxScoredShots, FALSE)
    /\ target_center \in TargetCenters
    /\ target_ring_radii \in RingRadiiLists
    /\ call = [op |-> "calculate_scoring_metrics"]
    /\ ret = NoRet
    /\ AsConstructed

\* scoring = calculator.calculate_scoring_metrics(shots, target_center, ring_radii)
CalculateScoringMetrics ==
    /\ call.op = "calculate_scoring_metrics"
    /\ ret = NoRet
    /\ ret' = calculate_scoring_metrics(shots, target_center, target_ring_radii)
    /\ UNCHANGED <<shots, target_center, target_ring_radii, call>>
    /\ UNCHANGED outside_engine

NextScoring == CalculateScoringMetrics

SpecScoring == InitScoring /\ [][NextScoring]_vars

-----------------------------------------------------------------------------
(* Properties of the scoring engine *)

Scored == call.op = "calculate_scoring_metrics" /\ ret.kind = "return"

Radii == Val(target_ring_radii)

Ascending(r) == \A i \in 1..(Len(r) - 1) : r[i] <= r[i + 1]

\* the shot at position k lies within the i-th radius of the target center
\* (squared distances, exact)
Within(k, i) == Norm2(shots[k], Val(target_center)) <= Radii[i] * Radii[i]

IsMiss(k) == \A i \in 1..Len(Radii) : ~Within(k, i)

\* C5: with non-empty ascending radii, a shot's score is len(ring_radii) - i
\* for the smallest 0-based index i whose radius is at least the shot's
\* distance (a shot exactly on a radius is inside it), and len(ring_radii) + 1
\* when the distance exceeds the last radius.
C5_ScoreOfSmallestRing ==
    (Scored /\ Ascending(Radii)) =>
    \A k \in 1..Len(shots) :
        /\ \A i \in 1..Len(Radii) :
              (Within(k, i) /\ \A j \in 1..(i - 1) : ~Within(k, j)) =>
                  ret.shot_scores[k] = Len(Radii) - (i - 1)
        /\ ~Within(k, Len(Radii)) => ret.shot_scores[k] = Len(Radii) + 1

\* a shot exactly on an inner radius, and a shot beyond the last radius
C5_Witness ==
    /\ Scored
    /\ Ascending(Radii)
    /\ Len(Radii) >= 2
    /\ \E k \in 1..Len(shots) :
          /\ Norm2(shots[k], Val(target_center)) = Radii[1] * Radii[1]
          /\ ret.shot_scores[k] = Len(Radii)
    /\ \E k \in 1..Len(shots) : IsMiss(k) /\ ret.shot_scores[k] = Len(Radii) + 1

\* C6: a miss is the lowest score: when the list holds a miss and a ring hit,
\* min_score is the score of a miss and max_score the score of a ring hit.
C6_MissIsLowestScore ==
    (Scored /\ (\E k \in 1..Len(shots) : IsMiss(k))
            /\ (\E k \in 1..Len(shots) : ~IsMiss(k))) =>
    /\ \E k \in 1..Len(shots) : IsMiss(k) /\ ret.min_score = ret.shot_scores[k]
    /\ \E k \in 1..Len(shots) : ~IsMiss(k) /\ ret.max_score = ret.shot_scores[k]

\* C7: for a non-empty shot list and non-empty radii, hit_distribution has
\* len(ring_radii) + 1 buckets, they add up to the number of shots, and the
\* last one counts the misses and nothing else.
C7_HitDistribution ==
    (call.op = "calculate_scoring_metrics" /\ ret # NoRet
        /\ shots # <<>> /\ ~IsNone(target_center)
        /\ ~IsNone(target_ring_radii) /\ Radii # <<>>) =>
    /\ ret.kind = "return"
    /\ Len(ret.hit_distribution) = Len(Radii) + 1
    /\ SumSeq(ret.hit_distribution) = Len(shots)
    /\ ret.hit_distribution[Len(Radii) + 1] = Cardinality({k \in 1..Len(shots) : IsMiss(k)})

\* a list with a miss and a hit in the innermost ring
C7_Witness ==
    /\ Scored
    /\ \E k \in 1..Len(shots) : IsMiss(k)
    /\ \E k \in 1..Len(shots) : Within(k, 1) /\ ret.shot_scores[k] = Len(Radii)
    /\ ret.hit_distribution[Len(Radii) + 1] = 1

\* C13: calculate_scoring_metrics raises InsufficientDataError, and gives no
\* report, when the shot list is empty, when ring_radii is empty or when
\* target_center is None.
C13_MissingScoringDataRaisesInsufficientData ==
    (/\ call.op = "calculate_scoring_metrics"
     /\ ret # NoRet
     /\ target_ring_radii # None
     /\ (shots = <<>> \/ target_ring_radii = Some(<<>>) \/ target_center = None))
        => ret = Raise("InsufficientDataError")

StrictlyAscending(r) == \A i \in 1..(Len(r) - 1) : r[i] < r[i + 1]

\* C14: with ring radii that are not strictly ascending,
\* calculate_scoring_metrics produces no shot scores.
C14_NoScoresForUnorderedRadii ==
    (/\ call.op = "calculate_scoring_metrics"
     /\ ret # NoRet
     /\ target_ring_radii # None
     /\ ~StrictlyAscending(Radii))
        => ret.kind # "return"

-----------------------------------------------------------------------------
(* Specification of the aggregator.  The group's shots carry no timestamp   *)
(* and no frame index, so the sequential step reads them in the group's     *)
(* order, which is the one order the input domain gives each list.          *)

\* the target of a group: no center or the center (MaxCenter, MaxCenter); no
\* ring radii, an empty list, or MaxRings rings of radii 1..MaxRings, innermost
\* first as the scoring expects them or outermost first
GroupCenters == {None, Some(Point(MaxCenter, MaxCenter))}

GroupRingRadii ==
    {None, Some(<<>>),
     Some(List([i \in 1..MaxRings |-> i])),
     Some(List([i \in 1..MaxRings |-> MaxRings + 1 - i]))}

InitAggregate ==
    /\ shots \in ShotLists(MaxGroupShots, FALSE)
    /\ target_center \in GroupCenters
    /\ target_ring_radii \in GroupRingRadii
    /\ call = [op |-> "calculate_comprehensive_sota_metrics"]
    /\ ret = NoRet
    /\ AsConstructed

\* sota_metrics = calculator.calculate_comprehensive_sota_metrics(
\*     ShotGroup(shots, target_center, target_ring_radii))
CalculateComprehensiveSotaMetrics ==
    /\ call.op = "calculate_comprehensive_sota_metrics"
    /\ ret = NoRet
    /\ ret' = calculate_comprehensive_sota_metrics(shots, target_center, target_ring_radii)
    /\ shots' = ShotsAfterDetection(ShotsAfterSorted(shots), "std_dev", DefaultThreshold)
    /\ UNCHANGED <<target_center, target_ring_radii, call>>
    /\ UNCHANGED outside_engine

NextAggregate == CalculateComprehensiveSotaMetrics

SpecAggregate == InitAggregate /\ [][NextAggregate]_vars

-----------------------------------------------------------------------------
(* Properties of the aggregator *)

Aggregated == call.op = "calculate_comprehensive_sota_metrics" /\ ret # NoRet

\* C8: the aggregator, called on a ShotGroup with an empty shots list, raises
\* InsufficientDataError and no other kind of error.
C8_EmptyGroupRaisesInsufficientData ==
    (Aggregated /\ shots = <<>>) =>
        (ret.kind = "raise" /\ ret.error = "InsufficientDataError")

\* C9: for a group of exactly one shot the aggregator returns a SOTAMetrics
\* with total_shots 1, the MPI at that shot, and the hull, sequential and
\* scoring fields at their defaults; it does not raise.
C9_SingleShotReturnsMetrics ==
    (Aggregated /\ Len(shots) = 1) =>
        /\ ret.kind = "return"
        /\ ret.total_shots = 1
        /\ ret.mpi = Some(Point(Scale * shots[1].x, Scale * shots[1].y))
        /\ ret.convex_hull_area = 0
        /\ ret.first_shot_displacement = 0
        /\ ret.shot_to_shot_displacement = 0
        /\ ret.total_score = 0
        /\ ret.average_score = 0

\* C10: when the hull of three or more shots cannot be built (the shots lie on
\* one line), the aggregator still returns a SOTAMetrics carrying total_shots,
\* the MPI, the extreme spread, the mean radius and the standard deviations.
C10_HullFailureDoesNotAbort ==
    (Aggregated /\ Len(shots) >= 3 /\ QhullFails(shots)) =>
        /\ ret.kind = "return"
        /\ ret.total_shots = Len(shots)
        /\ ret.mpi = Some(calculate_mean_point_of_impact(shots).value)
        /\ ret.extreme_spread = calculate_extreme_spread(shots).value
        /\ ret.mean_radius = calculate_mean_radius(shots).value
        /\ ret.std_dev_x = calculate_standard_deviations(shots).value[1]
        /\ ret.std_dev_y = calculate_standard_deviations(shots).value[2]

-----------------------------------------------------------------------------
(* Specification of the statistics primitives and the sequential analysis,  *)
(* each called once on a shot list without timestamps or frame indices      *)

StatisticsOps ==
    {"calculate_mean_point_of_impact", "calculate_extreme_spread",
     "calculate_mean_radius", "calculate_standard_deviations",
     "calculate_confidence_intervals", "calculate_convex_hull_area",
     "calculate_sequential_metrics"}

InitStatistics ==
    /\ shots \in ShotLists(MaxGroupShots, FALSE)
    /\ target_center = None
    /\ target_ring_radii = None
    /\ call \in [op : StatisticsOps]
    /\ ret = NoRet
    /\ AsConstructed

CalculateMeanPointOfImpact ==
    /\ call.op = "calculate_mean_point_of_impact"
    /\ ret = NoRet
    /\ ret' = calculate_mean_point_of_impact(shots)
    /\ UNCHANGED <<shots, target_center, target_ring_radii, call>>
    /\ UNCHANGED outside_engine

CalculateExtremeSpread ==
    /\ call.op = "calculate_extreme_spread"
    /\ ret = NoRet
    /\ ret' = calculate_extreme_spread(shots)
    /\ UNCHANGED <<shots, target_center, target_ring_radii, call>>
    /\ UNCHANGED outside_engine

CalculateMeanRadius ==
    /\ call.op = "calculate_mean_radius"
    /\ ret = NoRet
    /\ ret' = calculate_mean_radius(shots)
    /\ UNCHANGED <<shots, target_center, target_ring_radii, call>>
    /\ UNCHANGED outside_engine

CalculateStandardDeviations ==
    /\ call.op = "calculate_standard_deviations"
    /\ ret = NoRet
    /\ ret' = calculate_standard_deviations(shots)
    /\ UNCHANGED <<shots, target_center, target_ring_radii, call>>
    /\ UNCHANGED outside_engine

CalculateConfidenceIntervals ==
    /\ call.op = "calculate_confidence_intervals"
    /\ ret = NoRet
    /\ ret' = calculate_confidence_intervals(shots)
    /\ UNCHANGED <<shots, target_center, target_ring_radii, call>>
    /\ UNCHANGED outside_engine

CalculateConvexHullArea ==
    /\ call.op = "calculate_convex_hull_area"
    /\ ret = NoRet
    /\ ret' = calculate_convex_hull_area(shots)
    /\ UNCHANGED <<shots, target_center, target_ring_radii, call>>
    /\ UNCHANGED outside_engine

CalculateSequentialMetrics ==
    /\ call.op = "calculate_sequential_metrics"
    /\ ret = NoRet
    /\ ret' = calculate_sequential_metrics(shots)
    /\ shots' = ShotsAfterSorted(shots)
    /\ UNCHANGED <<target_center, target_ring_radii, call>>
    /\ UNCHANGED outside_engine

NextStatistics ==
    \/ CalculateMeanPointOfImpact
    \/ CalculateExtremeSpread
    \/ CalculateMeanRadius
    \/ CalculateStandardDeviations
    \/ CalculateConfidenceIntervals
    \/ CalculateConvexHullArea
    \/ CalculateSequentialMetrics

SpecStatistics == InitStatistics /\ [][NextStatistics]_vars

-----------------------------------------------------------------------------
(* Properties of the statistics primitives *)

\* the fewest shots each operation asks for
MinimumShots(op) ==
    CASE op = "calculate_mean_point_of_impact" -> 1
      [] op = "calculate_mean_radius" -> 1
      [] op = "calculate_standard_deviations" -> 1
      [] op = "calculate_extreme_spread" -> 2
      [] op = "calculate_sequential_metrics" -> 2
      [] op = "calculate_confidence_intervals" -> 3
      [] op = "calculate_convex_hull_area" -> 3

\* C12: an operation given fewer shots than its minimum raises
\* InsufficientDataError.
C12_TooFewShotsRaiseInsufficientData ==
    (call.op \in StatisticsOps /\ ret # NoRet /\ Len(shots) < MinimumShots(call.op))
        => ret = Raise("InsufficientDataError")

-----------------------------------------------------------------------------
(* Specification of the sequential analysis on shots that may carry a frame *)
(* index and a timestamp.  The positions come in the one order of the input *)
(* domain; the metadata puts them in other orders.  A timestamp is carried  *)
(* as an integer, later is larger.                                          *)

\* the ranks n..1, and the ranks 2..n followed by 1
Reversed(n) == List([i \in 1..n |-> n + 1 - i])
Rotated(n) == List([i \in 1..n |-> (i % n) + 1])

\* what the n shots of a list carry in one metadata field: nothing, a value
\* each, or a value each but the first; base is the smallest value
MetadataChoices(n, base) ==
    {List([i \in 1..n |-> None])}
    \cup {List([i \in 1..n |-> Some(base + o[i] - 1)]) : o \in {Reversed(n), Rotated(n)}}
    \cup {List([i \in 1..n |-> IF i = 1 THEN None ELSE Some(base + Reversed(n)[i] - 1)])}

WithMetadata(s, frames, stamps) ==
    List([i \in 1..Len(s) |->
            [s[i] EXCEPT !.frame_index = frames[i], !.timestamp = stamps[i]]])

InitSequential ==
    /\ \E s \in ShotLists(MaxSeqShots, FALSE) :
         \E frames \in MetadataChoices(Len(s), 0) :
           \E stamps \in MetadataChoices(Len(s), 1) :
             shots = WithMetadata(s, frames, stamps)
    /\ target_center = None
    /\ target_ring_radii = None
    /\ call = [op |-> "calculate_sequential_metrics"]
    /\ ret = NoRet
    /\ AsConstructed

NextSequential == CalculateSequentialMetrics

SpecSequential == InitSequential /\ [][NextSequential]_vars

-----------------------------------------------------------------------------
(* Properties of the sequential analysis *)

SequentialCalled == call.op = "calculate_sequential_metrics" /\ ret # NoRet

Sequenced == SequentialCalled /\ ret.kind = "return"

\* the positions of the shots, without their metadata, in the order p
Arranged(p) == List([i \in 1..Len(shots) |-> Shot(shots[p[i]].x, shots[p[i]].y)])

AllStamped == \A i \in 1..Len(shots) : shots[i].timestamp # None
AllFramed == \A i \in 1..Len(shots) : shots[i].frame_index # None

\* p puts the shots in ascending order of the field the rule selects, or
\* leaves them where they are when the rule selects none
FollowsOrderingRule(p) ==
    IF AllStamped
    THEN \A i \in 1..(Len(shots) - 1) :
            Val(shots[p[i]].timestamp) <= Val(shots[p[i + 1]].timestamp)
    ELSE IF AllFramed
    THEN \A i \in 1..(Len(shots) - 1) :
            Val(shots[p[i]].frame_index) <= Val(shots[p[i + 1]].frame_index)
    ELSE \A i \in 1..Len(shots) : p[i] = i

\* C15: the sequential metrics of two or more shots are those of the shots in
\* ascending timestamp order when every shot has a timestamp, else in
\* ascending frame_index order when every shot has a frame index, else in the
\* caller's order; metadata that only some shots carry raises no error.
C15_OrderingRule ==
    (SequentialCalled /\ Len(shots) >= 2) =>
        /\ ret.kind = "return"
        /\ \E p \in Permutations(1..Len(shots)) :
              /\ FollowsOrderingRule(p)
              /\ ret = calculate_sequential_metrics(Arranged(p))

\* three shots whose timestamps and frame indices give two different orders,
\* both different from the caller's, and metrics that tell the orders apart
C15_Witness ==
    /\ Sequenced
    /\ Len(shots) = 3
    /\ AllStamped
    /\ AllFramed
    /\ \E i \in 1..2 : Val(shots[i].timestamp) > Val(shots[i + 1].timestamp)
    /\ ret # calculate_sequential_metrics(Arranged(<<1, 2, 3>>))
    /\ \E p \in Permutations(1..3) :
          /\ \A i \in 1..2 : Val(shots[p[i]].frame_index) < Val(shots[p[i + 1]].frame_index)
          /\ ret # calculate_sequential_metrics(Arranged(p))

\* the shots in the order the analysis reads them
Ordered == SortedShots(shots)

\* floor(Scale * distance) from a shot to the mean of the x and of the y of a group
ToCentroid(shot, group) ==
    LET m == Len(group)
        cx == SumSeq(List([k \in 1..m |-> group[k].x]))
        cy == SumSeq(List([k \in 1..m |-> group[k].y]))
    IN  ISqrt((Scale * Scale * ((m * shot.x - cx) * (m * shot.x - cx)
                                + (m * shot.y - cy) * (m * shot.y - cy))) \div (m * m))

\* entry i is the distance from the shot after the i-th to the centroid of
\* the first i shots
Displacements == List([i \in 1..(Len(shots) - 1) |->
                          ToCentroid(Ordered[i + 1], SubSeq(Ordered, 1, i))])

\* C16: over the ordered shots s_0..s_{N-1}, N >= 2, first_shot_displacement
\* is the distance from s_0 to the centroid of s_1..s_{N-1}; the displacement
\* sequence has N-1 entries, the i-th the distance from s_i to the centroid of
\* s_0..s_{i-1}; shot_to_shot_displacement is its mean; for N = 2 both equal
\* the distance between the two shots.
C16_Displacements ==
    Sequenced =>
        /\ ret.value.first_shot_displacement =
              ToCentroid(Ordered[1], SubSeq(Ordered, 2, Len(shots)))
        /\ ret.value.shot_to_shot_displacement =
              SumSeq(Displacements) \div (Len(shots) - 1)
        /\ ret.value.max_shot_displacement = MaxSeq(Displacements)
        /\ ret.value.min_shot_displacement = MinSeq(Displacements)
        /\ Len(shots) = 2 =>
              /\ ret.value.first_shot_displacement = distance_to(shots[1], shots[2])
              /\ ret.value.shot_to_shot_displacement = distance_to(shots[1], shots[2])

\* three shots where the centroid of the rest is neither the first nor the
\* second shot, and the displacements differ from one another
C16_Witness ==
    /\ Sequenced
    /\ Len(shots) = 3
    /\ ret.value.first_shot_displacement # distance_to(Ordered[1], Ordered[2])
    /\ ret.value.first_shot_displacement # ToCentroid(Ordered[1], Ordered)
    /\ ret.value.max_shot_displacement > ret.value.min_shot_displacement
    /\ ret.value.min_shot_displacement > 0

\* C17: for two or more shots trend_stability lies in [0.0, 1.0], and it is
\* exactly 1.0 for fewer than 3 shots.
C17_TrendStabilityBounded ==
    (SequentialCalled /\ Len(shots) >= 2) =>
        /\ ret.kind = "return"
        /\ ret.value.trend_stability >= 0
        /\ ret.value.trend_stability <= Scale
        /\ Len(shots) < 3 => ret.value.trend_stability = Scale

\* three shots with a trend stability strictly between the two ends
C17_Witness ==
    /\ Sequenced
    /\ Len(shots) = 3
    /\ ret.value.trend_stability > Scale \div 2
    /\ ret.value.trend_stability < Scale

\* v moves by the same step from each entry to the next
LinearInIndex(v) ==
    \A i \in 2..(Len(v) - 1) : v[i + 1] - v[i] = v[i] - v[i - 1]

\* C18: trend_stability is 1.0 for 3 or more shots whose x and whose y are
\* each a linear function of the shot index, zero slopes included.
C18_LinearProgressionIsStable ==
    (/\ Sequenced
     /\ Len(shots) >= 3
     /\ LinearInIndex(List([i \in 1..Len(shots) |-> Ordered[i].x]))
     /\ LinearInIndex(List([i \in 1..Len(shots) |-> Ordered[i].y])))
        => ret.value.trend_stability = Scale

-----------------------------------------------------------------------------
(* Specification of the three entry points on shots that carry a confidence *)
(* (in hundredths) and, all of them or none, a timestamp                    *)

\* the confidences of the n shots of a list: rising or falling with the position
ConfidenceChoices(n) ==
    {List([i \in 1..n |-> i]), List([i \in 1..n |-> n - i])}

\* the timestamps of the n shots of a list: none, or latest first
TimestampChoices(n) ==
    {List([i \in 1..n |-> None]), List([i \in 1..n |-> Some(Reversed(n)[i])])}

WithConfidence(s, confidences, stamps) ==
    List([i \in 1..Len(s) |->
            [s[i] EXCEPT !.confidence = confidences[i], !.timestamp = stamps[i]]])

InitConfidence ==
    /\ \E s \in ShotLists(MaxGroupShots, TRUE) :
         \E confidences \in ConfidenceChoices(Len(s)) :
           \E stamps \in TimestampChoices(Len(s)) :
             shots = WithConfidence(s, confidences, stamps)
    /\ target_center = Some(Point(MaxCenter, MaxCenter))
    /\ target_ring_radii = Some(List([i \in 1..MaxRings |-> i]))
    /\ call \in {[op |-> "calculate_comprehensive_sota_metrics"],
                 [op |-> "calculate_scoring_metrics"]}
                \cup [op : {"detect_flyers"},
                      method : {"std_dev", "iqr", "convex_hull", "distance"},
                      threshold : {0, 1}]
    /\ ret = NoRet
    /\ AsConstructed

NextConfidence ==
    \/ CalculateComprehensiveSotaMetrics
    \/ DetectFlyers
    \/ CalculateScoringMetrics

SpecConfidence == InitConfidence /\ [][NextConfidence]_vars

-----------------------------------------------------------------------------
(* Properties of the entry points on shots with a confidence *)

\* the same shots, position by position, with confidence 0.0
ConfidenceCleared ==
    List([i \in 1..Len(shots) |-> [shots[i] EXCEPT !.confidence = 0]])

\* C20: the results do not depend on confidence: each of
\* calculate_comprehensive_sota_metrics, detect_flyers and
\* calculate_scoring_metrics gives, on a shot list, the result it gives on the
\* list that agrees with it on x, y, timestamp and frame_index and has every
\* confidence 0.0; so two lists that differ only in confidence get one result.
C20_ConfidenceIgnored ==
    ret # NoRet =>
        ret = CASE call.op = "calculate_comprehensive_sota_metrics" ->
                     calculate_comprehensive_sota_metrics(
                         ConfidenceCleared, target_center, target_ring_radii)
                [] call.op = "detect_flyers" ->
                     ExceptAsAnalysisError(
                         detect_flyers(ConfidenceCleared, call.method, call.threshold))
                [] call.op = "calculate_scoring_metrics" ->
                     calculate_scoring_metrics(
                         ConfidenceCleared, target_center, target_ring_radii)

\* an aggregation of three shots of three different confidences that has a
\* hull, a score and a flyer count to report
C20_Witness ==
    /\ call.op = "calculate_comprehensive_sota_metrics"
    /\ ret.kind = "return"
    /\ Len(shots) = 3
    /\ shots[1].confidence # shots[2].confidence
    /\ shots[2].confidence # shots[3].confidence
    /\ ret.convex_hull_area > 0
    /\ ret.total_score > 0

-----------------------------------------------------------------------------
(* Specification of a caller that makes one engine call after another on one *)
(* ShotGroup.  The shots lie on the corners of the grid and carry, all of    *)
(* them or none, a timestamp that runs against the order of the list.        *)

MaxCalls == 2         \* the caller makes up to MaxCalls + 1 calls

Corner(shot) == shot.x \in {0, GridMax} /\ shot.y \in {0, GridMax}

SessionShotLists ==
    {s \in ShotLists(MaxGroupShots, TRUE) : \A i \in 1..Len(s) : Corner(s[i])}

SessionCalls ==
    [op : StatisticsOps \cup {"calculate_comprehensive_sota_metrics",
                              "calculate_scoring_metrics"}]
    \cup [op : {"detect_flyers"},
          method : {"std_dev", "iqr", "convex_hull", "distance"},
          threshold : {0, DefaultThreshold}]

InitSession ==
    /\ \E s \in SessionShotLists :
         \E stamps \in TimestampChoices(Len(s)) :
           shots = WithConfidence(s, List([i \in 1..Len(s) |-> i]), stamps)
    /\ target_center = Some(Point(MaxCenter, MaxCenter))
    /\ target_ring_radii = Some(List([i \in 1..MaxRings |-> i]))
    /\ call \in SessionCalls
    /\ ret = NoRet
    /\ AsConstructed

\* the caller keeps the first SOTAMetrics it was given and makes its next call
NextCall ==
    /\ ret # NoRet
    /\ calls < MaxCalls
    /\ first_metrics' = IF call.op = "calculate_comprehensive_sota_metrics"
                           /\ first_metrics = None
                        THEN Some(ret) ELSE first_metrics
    /\ calls' = calls + 1
    /\ call' \in SessionCalls
    /\ ret' = NoRet
    /\ UNCHANGED <<shots, target_center, target_ring_radii, session_state, state, pipeline>>

NextSession ==
    \/ NextCall
    \/ CalculateMeanPointOfImpact
    \/ CalculateExtremeSpread
    \/ CalculateMeanRadius
    \/ CalculateStandardDeviations
    \/ CalculateConfidenceIntervals
    \/ CalculateConvexHullArea
    \/ CalculateSequentialMetrics
    \/ DetectFlyers
    \/ CalculateScoringMetrics
    \/ CalculateComprehensiveSotaMetrics

SpecSession == InitSession /\ [][NextSession]_vars

-----------------------------------------------------------------------------
(* Properties of a sequence of calls *)

\* C21: no engine call changes what it was given: the shot list keeps its
\* contents and its order, every shot its fields, and the target its center
\* and its ring radii, also when the sequential analysis sorts.
C21_InputsUnchanged ==
    [][/\ shots' = shots
       /\ target_center' = target_center
       /\ target_ring_radii' = target_ring_radii]_vars

\* a second or later call, the sequential analysis, has returned for a list
\* that its sort key puts in another order
C21_Witness ==
    /\ calls >= 1
    /\ Sequenced
    /\ SortedShots(shots) # shots

-----------------------------------------------------------------------------
(* Specification of the calls the unit tests make on the fixture groups of   *)
(* tests/fixtures/sample_shots.py.  A confidence is carried in hundredths.   *)
(* Each fixture is given in every order of its five shots.                   *)

FixtureShot(x, y, confidence) == [Shot(x, y) EXCEPT !.confidence = confidence]

get_sample_shots_5 ==
    <<FixtureShot(512, 512, 95), FixtureShot(518, 508, 92), FixtureShot(508, 518, 88),
      FixtureShot(520, 520, 94), FixtureShot(515, 525, 91)>>

\* the shots of get_flier_shot_group()
get_flier_shot_group ==
    <<FixtureShot(512, 512, 95), FixtureShot(515, 515, 92), FixtureShot(509, 509, 88),
      FixtureShot(518, 518, 94), FixtureShot(600, 600, 91)>>

\* detect_flyers(shots, "std_dev", 2.0), (shots, "iqr", 1.5),
\* (shots, "convex_hull", 10.0), (shots, "distance", 2.0)
FlyerTestCalls ==
    {[op |-> "detect_flyers", method |-> "std_dev", threshold |-> 2 * ThresholdDen],
     [op |-> "detect_flyers", method |-> "iqr", threshold |-> (3 * ThresholdDen) \div 2],
     [op |-> "detect_flyers", method |-> "convex_hull", threshold |-> 10 * ThresholdDen],
     [op |-> "detect_flyers", method |-> "distance", threshold |-> 2 * ThresholdDen]}

InOrder(s, p) == List([i \in 1..Len(s) |-> s[p[i]]])

InitFixtures ==
    /\ \E fixture \in {get_sample_shots_5, get_flier_shot_group} :
         \E p \in Permutations(1..Len(fixture)) :
           shots = InOrder(fixture, p)
    /\ target_center = Some(Point(512, 512))
    /\ target_ring_radii = None
    /\ call \in FlyerTestCalls \cup {[op |-> "calculate_extreme_spread"]}
    /\ ret = NoRet
    /\ AsConstructed

NextFixtures ==
    \/ DetectFlyers
    \/ CalculateExtremeSpread

SpecFixtures == InitFixtures /\ [][NextFixtures]_vars

-----------------------------------------------------------------------------
(* Properties of the fixture groups *)

\* the shots are those of the fixture, in some order
IsFixture(fixture) == \E p \in Permutations(1..Len(fixture)) : shots = InOrder(fixture, p)

\* C23: on the group (512,512), (515,515), (509,509), (518,518), (600,600)
\* each of the four test calls returns 1 rejected shot, the one at (600,600),
\* and 4 accepted shots.
C23_EachMethodRejectsTheFlier ==
    (Detected /\ IsFixture(get_flier_shot_group) /\ call \in FlyerTestCalls)
        => /\ Len(ret.flyers) = 1
           /\ Len(ret.good) = 4
           /\ shots[ret.flyers[1]].x = 600
           /\ shots[ret.flyers[1]].y = 600

\* the largest squared distance between two of the shots
MaxPairwiseNorm2 ==
    CHOOSE m \in {Norm2(shots[i], shots[j]) : i, j \in 1..Len(shots)} :
        \A i, j \in 1..Len(shots) : Norm2(shots[i], shots[j]) <= m

SpreadOfSample ==
    /\ call.op = "calculate_extreme_spread"
    /\ ret # NoRet
    /\ IsFixture(get_sample_shots_5)

\* C24 as stated: the extreme spread of (512,512), (518,508), (508,518),
\* (520,520), (515,525) is the largest pairwise distance and lies between
\* 18.0 and 19.0.
C24_SpreadBetween18And19 ==
    SpreadOfSample
        => /\ ret.kind = "return"
           /\ ret.value * ret.value <= Scale * Scale * MaxPairwiseNorm2
           /\ Scale * Scale * MaxPairwiseNorm2 < (ret.value + 1) * (ret.value + 1)
           /\ 18 * Scale <= ret.value
           /\ ret.value <= 19 * Scale

\* C24 amended: the extreme spread of the five shots is the largest pairwise
\* distance, the square root of 298 (between (518,508) and (515,525)), which
\* lies between 17.0 and 18.0.
C24_SpreadIsRoot298 ==
    SpreadOfSample
        => /\ ret.kind = "return"
           /\ ret.value * ret.value <= Scale * Scale * MaxPairwiseNorm2
           /\ Scale * Scale * MaxPairwiseNorm2 < (ret.value + 1) * (ret.value + 1)
           /\ MaxPairwiseNorm2 = 298
           /\ 17 * Scale <= ret.value
           /\ ret.value < 18 * Scale

\* the spread of the five shots was returned, in the order of the fixture
C24_Witness ==
    /\ SpreadOfSample
    /\ shots = get_sample_shots_5
    /\ ret.kind = "return"

-----------------------------------------------------------------------------
(* New-shot detection, shot_analysis.py.  The analyzer's duplicate_threshold *)
(* is carried as a numerator over ThresholdDen; for shots on integer         *)
(* coordinates the comparison of a distance with it is made exactly, on the  *)
(* squares.                                                                  *)

MaxPrevious == 2      \* longest list of previous shots
MaxDetections == 2    \* longest list of current detections

\* Mutant of IsDuplicateOf: a detection exactly at the threshold is not a duplicate
IsDuplicateOf_Strict(detection, prev_shot, duplicate_threshold) ==
    /\ duplicate_threshold > 0
    /\ ThresholdDen * ThresholdDen * Norm2(detection, prev_shot)
           < duplicate_threshold * duplicate_threshold

\* dist = detection.distance_to(prev_shot); dist <= self.duplicate_threshold
IsDuplicateOf(detection, prev_shot, duplicate_threshold) ==
    /\ duplicate_threshold >= 0
    /\ ThresholdDen * ThresholdDen * Norm2(detection, prev_shot)
           <= duplicate_threshold * duplicate_threshold

\* for prev_shot in previous_shots: if <duplicate>: is_duplicate = True; break
is_duplicate(detection, previous_shots, duplicate_threshold) ==
    \E j \in 1..Len(previous_shots) :
        IsDuplicateOf(detection, previous_shots[j], duplicate_threshold)

\* new_shots, as the positions its elements have in current_detections
find_new_shots(previous_shots, current_detections, duplicate_threshold) ==
    ExceptAsAnalysisError(
        Return(SelectSeq(Positions(current_detections),
                         LAMBDA i : ~is_duplicate(current_detections[i], previous_shots,
                                                  duplicate_threshold))))

-----------------------------------------------------------------------------
(* Specification of find_new_shots on shots at the corners of the grid *)

CornerShots == {shot \in GridShots : Corner(shot)}

RECURSIVE CornerListsOfLen(_)
CornerListsOfLen(n) ==
    IF n = 0 THEN {<<>>}
    ELSE {Append(s, shot) : s \in CornerListsOfLen(n - 1), shot \in CornerShots}

CornerLists(maxLen) == UNION {CornerListsOfLen(n) : n \in 0..maxLen}

\* below zero, zero, just below the side of the grid, the side of the grid,
\* and more than its diagonal
DuplicateThresholds ==
    {-1, 0, GridMax * ThresholdDen - 1, GridMax * ThresholdDen, 2 * GridMax * ThresholdDen}

InitNewShots ==
    /\ shots = <<>>
    /\ target_center = None
    /\ target_ring_radii = None
    /\ call \in [op : {"find_new_shots"},
                 duplicate_threshold : DuplicateThresholds,
                 previous_shots : CornerLists(MaxPrevious),
                 current_detections : CornerLists(MaxDetections)]
    /\ ret = NoRet
    /\ AsConstructed

\* new_shots = ShotAnalyzer(duplicate_threshold).find_new_shots(
\*     previous_shots, current_detections)
FindNewShots ==
    /\ call.op = "find_new_shots"
    /\ ret = NoRet
    /\ ret' = find_new_shots(call.previous_shots, call.current_detections,
                             call.duplicate_threshold)
    /\ UNCHANGED <<shots, target_center, target_ring_radii, call>>
    /\ UNCHANGED outside_engine

NextNewShots == FindNewShots

SpecNewShots == InitNewShots /\ [][NextNewShots]_vars

-----------------------------------------------------------------------------
(* Properties of find_new_shots *)

NewShotsFound == call.op = "find_new_shots" /\ ret # NoRet

\* the distance between two shots is strictly greater than the threshold t
\* (a numerator over ThresholdDen)
FartherThan(a, b, t) ==
    t < 0 \/ ThresholdDen * ThresholdDen * Norm2(a, b) > t * t

\* detection i lies farther than the threshold from every previous shot
IsNew(i) ==
    \A j \in 1..Len(call.previous_shots) :
        FartherThan(call.current_detections[i], call.previous_shots[j],
                    call.duplicate_threshold)

\* C25: find_new_shots returns, in the order of the input, exactly the current
\* detections that lie strictly farther than duplicate_threshold from every
\* previous shot (a detection at exactly the threshold is a duplicate); with
\* no previous shots it returns them all; detections are not compared with
\* one another; and neither list is changed.
C25_NewShots ==
    /\ [](NewShotsFound =>
            /\ ret.kind = "return"
            /\ Increasing(ret.value)
            /\ Range(ret.value) = {i \in 1..Len(call.current_detections) : IsNew(i)}
            /\ (call.previous_shots = <<>> =>
                    ret.value = Positions(call.current_detections)))
    /\ [][call' = call]_vars

\* two detections at one place, both exactly at the threshold from every
\* previous shot: both are duplicates
C25_Witness ==
    /\ NewShotsFound
    /\ Len(call.current_detections) = 2
    /\ SamePlace(call.current_detections[1], call.current_detections[2])
    /\ call.previous_shots # <<>>
    /\ ret.value = <<>>
    /\ call.duplicate_threshold > 0
    /\ \A j \in 1..Len(call.previous_shots) :
          ThresholdDen * ThresholdDen
              * Norm2(call.current_detections[1], call.previous_shots[j])
            = call.duplicate_threshold * call.duplicate_threshold

-----------------------------------------------------------------------------
(* The user interface's StateManager, ui_layer/state_management.py.  A       *)
(* setter is an operator from st.session_state and the value given to the    *)
(* session state it leaves and the outcome of the call.                      *)

HistoryLimit == 50

\* a setter that raised, and a setter that returned (None)
Rejected(ss) == [session_state |-> ss, outcome |-> Raise("ValidationError")]
Stored(ss) == [session_state |-> ss, outcome |-> [kind |-> "return", value |-> None]]

\* datetime.now(): a reading of the clock later than that of the last entry
\* (the entry holds its isoformat())
Now(history) ==
    IF history = <<>> THEN 1 ELSE history[Len(history)].timestamp + 1

\* history[-n:]
LastN(history, n) ==
    IF Len(history) <= n THEN history
    ELSE SubSeq(history, Len(history) - n + 1, Len(history))

\* Mutant of _add_to_analysis_history: the first 50 entries are kept (history[:50])
_add_to_analysis_history_KeepFirst(ss, action, data) ==
    LET history == Append(ss.analysis_history,
                          [timestamp |-> Now(ss.analysis_history),
                           action |-> action, data |-> data])
    IN  [ss EXCEPT !.analysis_history =
            IF Len(history) > HistoryLimit THEN SubSeq(history, 1, HistoryLimit)
            ELSE history]

_add_to_analysis_history(ss, action, data) ==
    LET history == Append(ss.analysis_history,
                          [timestamp |-> Now(ss.analysis_history),
                           action |-> action, data |-> data])
    IN  [ss EXCEPT !.analysis_history =
            IF Len(history) > HistoryLimit THEN LastN(history, HistoryLimit)
            ELSE history]

set_shots(ss, new_shots) ==
    Stored(_add_to_analysis_history([ss EXCEPT !.shots = new_shots],
               "shots_updated", [shot_count |-> Len(new_shots)]))

set_filtered_shots(ss, new_shots) ==
    Stored(_add_to_analysis_history([ss EXCEPT !.filtered_shots = new_shots],
               "filtering", [filtered_count |-> Len(new_shots)]))

\* the data of the entry is the empty dict
set_current_image(ss, image) ==
    Stored(_add_to_analysis_history([ss EXCEPT !.current_image = Some(image)],
               "image_loaded", <<>>))

\* mpi is None or Some(point); a Point is stored as the dict of its x and y
set_mpi(ss, mpi) ==
    Stored(_add_to_analysis_history([ss EXCEPT !.mpi = mpi],
               "mpi_calculated", [mpi |-> mpi]))

\* In each validated setter the ValidationError of the check is raised inside
\* the try block, caught by "except Exception" and raised again as
\* ValidationError; nothing was assigned before it.
set_analysis_mode(ss, mode) ==
    IF mode \notin {"Local Files", "Live Camera"} THEN Rejected(ss)
    ELSE Stored(_add_to_analysis_history([ss EXCEPT !.analysis_mode = mode],
                    "mode_changed", [mode |-> mode]))

set_duplicate_threshold(ss, threshold) ==
    IF threshold < 5 * ThresholdDen \/ threshold > 50 * ThresholdDen THEN Rejected(ss)
    ELSE Stored(_add_to_analysis_history([ss EXCEPT !.duplicate_threshold = threshold],
                    "threshold_changed", [type |-> "duplicate", value |-> threshold]))

set_min_confidence(ss, confidence) ==
    IF confidence < 0 \/ confidence > ThresholdDen THEN Rejected(ss)
    ELSE Stored(_add_to_analysis_history([ss EXCEPT !.min_confidence = confidence],
                    "threshold_changed", [type |-> "confidence", value |-> confidence]))

set_outlier_method(ss, method) ==
    IF method \notin {"None", "Standard Deviation", "IQR", "Convex Hull"} THEN Rejected(ss)
    ELSE Stored(_add_to_analysis_history([ss EXCEPT !.outlier_method = method],
                    "outlier_method_changed", [method |-> method]))

\* Mutant of set_outlier_threshold: the value is stored before it is checked
set_outlier_threshold_StoreFirst(ss, threshold) ==
    IF 2 * threshold < ThresholdDen \/ threshold > 5 * ThresholdDen
    THEN Rejected([ss EXCEPT !.outlier_threshold = threshold])
    ELSE Stored(_add_to_analysis_history([ss EXCEPT !.outlier_threshold = threshold],
                    "threshold_changed", [type |-> "outlier", value |-> threshold]))

\* threshold < 0.5 or threshold > 5.0
set_outlier_threshold(ss, threshold) ==
    IF 2 * threshold < ThresholdDen \/ threshold > 5 * ThresholdDen THEN Rejected(ss)
    ELSE Stored(_add_to_analysis_history([ss EXCEPT !.outlier_threshold = threshold],
                    "threshold_changed", [type |-> "outlier", value |-> threshold]))

-----------------------------------------------------------------------------
(* ui_layer/components/metrics_panel.py: the method name that                *)
(* render_flyer_analysis gives to detect_flyers.  A string is spelled out as *)
(* the sequence of its characters for str.lower and str.replace to work on.  *)

Spelling(name) ==
    CASE name = "None" -> <<"N", "o", "n", "e">>
      [] name = "Standard Deviation" ->
            <<"S", "t", "a", "n", "d", "a", "r", "d", " ",
              "D", "e", "v", "i", "a", "t", "i", "o", "n">>
      [] name = "IQR" -> <<"I", "Q", "R">>
      [] name = "Convex Hull" -> <<"C", "o", "n", "v", "e", "x", " ", "H", "u", "l", "l">>
      [] name = "none" -> <<"n", "o", "n", "e">>
      [] name = "standard_deviation" ->
            <<"s", "t", "a", "n", "d", "a", "r", "d", "_",
              "d", "e", "v", "i", "a", "t", "i", "o", "n">>
      [] name = "std_dev" -> <<"s", "t", "d", "_", "d", "e", "v">>
      [] name = "iqr" -> <<"i", "q", "r">>
      [] name = "convex_hull" -> <<"c", "o", "n", "v", "e", "x", "_", "h", "u", "l", "l">>
      [] name = "distance" -> <<"d", "i", "s", "t", "a", "n", "c", "e">>

Spelled ==
    {"None", "Standard Deviation", "IQR", "Convex Hull", "none",
     "standard_deviation", "std_dev", "iqr", "convex_hull", "distance"}

\* the string with the given characters
Text(chars) == CHOOSE name \in Spelled : Spelling(name) = chars

\* str.lower, on the upper-case letters of the names above
LowerChar(c) ==
    CASE c = "N" -> "n" [] c = "S" -> "s" [] c = "D" -> "d" [] c = "I" -> "i"
      [] c = "Q" -> "q" [] c = "R" -> "r" [] c = "C" -> "c" [] c = "H" -> "h"
      [] OTHER -> c

lower(chars) == List([i \in 1..Len(chars) |-> LowerChar(chars[i])])

\* str.replace(old, new) for one-character old and new
replace(chars, old, new) ==
    List([i \in 1..Len(chars) |-> IF chars[i] = old THEN new ELSE chars[i]])

\* outlier_method.lower().replace(" ", "_")
FlyerMethodArgument(outlier_method) ==
    Text(replace(lower(Spelling(outlier_method)), " ", "_"))

-----------------------------------------------------------------------------
(* Specification of the user interface: setter calls and renderings of the   *)
(* flyer analysis, on a session whose history holds no entry yet, or 49 or   *)
(* 50 entries of images loaded before.                                       *)

MaxSetterCalls == 2   \* the calls made on the StateManager

\* the session after n calls of set_current_image on a new session, n <= 50
AfterImages(n) ==
    IF n = 0 THEN InitialSessionState
    ELSE [InitialSessionState EXCEPT
             !.current_image = Some("image"),
             !.analysis_history =
                 List([i \in 1..n |->
                     [timestamp |-> i, action |-> "image_loaded", data |-> <<>>]])]

AnalysisModes == {"Local Files", "Live Camera", "Remote"}
DuplicateThresholdInputs ==
    {5 * ThresholdDen - 1, 5 * ThresholdDen, 50 * ThresholdDen, 50 * ThresholdDen + 1}
MinConfidenceInputs == {-1, 0, ThresholdDen, ThresholdDen + 1}
OutlierMethods == {"None", "Standard Deviation", "IQR", "Convex Hull", "Distance"}
OutlierThresholdInputs ==
    {0, (ThresholdDen + 1) \div 2, 5 * ThresholdDen, 5 * ThresholdDen + 1}

InitUi ==
    /\ shots \in {<<>>, <<Shot(0, 0), Shot(0, GridMax), Shot(GridMax, 0),
                          Shot(GridMax, GridMax), Shot(1, 1)>>}
    /\ target_center = None
    /\ target_ring_radii = None
    /\ call = NoCall
    /\ ret = NoRet
    /\ first_metrics = None
    /\ calls = 0
    /\ session_state \in {AfterImages(n) : n \in {0, HistoryLimit - 1, HistoryLimit}}
    /\ state = AnalysisState
    /\ pipeline = PipelineStarted

\* state_manager.<setter>(value): one action for each setter
SetShots ==
    /\ calls < MaxSetterCalls
    /\ calls' = calls + 1
    /\ \E new_shots \in {<<>>, <<Shot(0, 0)>>} :
         /\ call' = [op |-> "set_shots", value |-> new_shots]
         /\ session_state' = set_shots(session_state, new_shots).session_state
         /\ ret' = set_shots(session_state, new_shots).outcome
    /\ UNCHANGED <<shots, target_center, target_ring_radii, first_metrics, state, pipeline>>

SetFilteredShots ==
    /\ calls < MaxSetterCalls
    /\ calls' = calls + 1
    /\ \E new_shots \in {<<>>} :
         /\ call' = [op |-> "set_filtered_shots", value |-> new_shots]
         /\ session_state' = set_filtered_shots(session_state, new_shots).session_state
         /\ ret' = set_filtered_shots(session_state, new_shots).outcome
    /\ UNCHANGED <<shots, target_center, target_ring_radii, first_metrics, state, pipeline>>

SetCurrentImage ==
    /\ calls < MaxSetterCalls
    /\ calls' = calls + 1
    /\ \E image \in {"image"} :
         /\ call' = [op |-> "set_current_image", value |-> image]
         /\ session_state' = set_current_image(session_state, image).session_state
         /\ ret' = set_current_image(session_state, image).outcome
    /\ UNCHANGED <<shots, target_center, target_ring_radii, first_metrics, state, pipeline>>

SetMpi ==
    /\ calls < MaxSetterCalls
    /\ calls' = calls + 1
    /\ \E mpi \in {None, Some(Point(1, 1))} :
         /\ call' = [op |-> "set_mpi", value |-> mpi]
         /\ session_state' = set_mpi(session_state, mpi).session_state
         /\ ret' = set_mpi(session_state, mpi).outcome
    /\ UNCHANGED <<shots, target_center, target_ring_radii, first_metrics, state, pipeline>>

SetAnalysisMode ==
    /\ calls < MaxSetterCalls
    /\ calls' = calls + 1
    /\ \E mode \in AnalysisModes :
         /\ call' = [op |-> "set_analysis_mode", value |-> mode]
         /\ session_state' = set_analysis_mode(session_state, mode).session_state
         /\ ret' = set_analysis_mode(session_state, mode).outcome
    /\ UNCHANGED <<shots, target_center, target_ring_radii, first_metrics, state, pipeline>>

SetDuplicateThreshold ==
    /\ calls < MaxSetterCalls
    /\ calls' = calls + 1
    /\ \E threshold \in DuplicateThresholdInputs :
         /\ call' = [op |-> "set_duplicate_threshold", value |-> threshold]
         /\ session_state' = set_duplicate_threshold(session_state, threshold).session_state
         /\ ret' = set_duplicate_threshold(session_state, threshold).outcome
    /\ UNCHANGED <<shots, target_center, target_ring_radii, first_metrics, state, pipeline>>

SetMinConfidence ==
    /\ calls < MaxSetterCalls
    /\ calls' = calls + 1
    /\ \E confidence \in MinConfidenceInputs :
         /\ call' = [op |-> "set_min_confidence", value |-> confidence]
         /\ session_state' = set_min_confidence(session_state, confidence).session_state
         /\ ret' = set_min_confidence(session_state, confidence).outcome
    /\ UNCHANGED <<shots, target_center, target_ring_radii, first_metrics, state, pipeline>>

SetOutlierMethod ==
    /\ calls < MaxSetterCalls
    /\ calls' = calls + 1
    /\ \E method \in OutlierMethods :
         /\ call' = [op |-> "set_outlier_method", value |-> method]
         /\ session_state' = set_outlier_method(session_state, method).session_state
         /\ ret' = set_outlier_method(session_state, method).outcome
    /\ UNCHANGED <<shots, target_center, target_ring_radii, first_metrics, state, pipeline>>

SetOutlierThreshold ==
    /\ calls < MaxSetterCalls
    /\ calls' = calls + 1
    /\ \E threshold \in OutlierThresholdInputs :
         /\ call' = [op |-> "set_outlier_threshold", value |-> threshold]
         /\ session_state' = set_outlier_threshold(session_state, threshold).session_state
         /\ ret' = set_outlier_threshold(session_state, threshold).outcome
    /\ UNCHANGED <<shots, target_center, target_ring_radii, first_metrics, state, pipeline>>

\* metrics_panel.render_flyer_analysis(shots): call and ret hold the call it
\* makes on the engine, or, with fewer than 3 shots, its own return
RenderFlyerAnalysis ==
    /\ calls < MaxSetterCalls
    /\ calls' = calls + 1
    /\ IF Len(shots) < 3
       THEN /\ call' = [op |-> "render_flyer_analysis"]
            /\ ret' = [kind |-> "return", value |-> None]
       ELSE /\ call' = [op |-> "detect_flyers",
                        method |-> FlyerMethodArgument(session_state.outlier_method),
                        threshold |-> session_state.outlier_threshold]
            /\ ret' = ExceptAsAnalysisError(
                          detect_flyers(shots,
                                        FlyerMethodArgument(session_state.outlier_method),
                                        session_state.outlier_threshold))
    /\ UNCHANGED <<shots, target_center, target_ring_radii, first_metrics,
                   session_state, state, pipeline>>

NextUi ==
    \/ SetShots
    \/ SetFilteredShots
    \/ SetCurrentImage
    \/ SetMpi
    \/ SetAnalysisMode
    \/ SetDuplicateThreshold
    \/ SetMinConfidence
    \/ SetOutlierMethod
    \/ SetOutlierThreshold
    \/ RenderFlyerAnalysis

SpecUi == InitUi /\ [][NextUi]_vars

-----------------------------------------------------------------------------
(* Properties of the user interface *)

ValidatedSetters ==
    {"set_analysis_mode", "set_duplicate_threshold", "set_min_confidence",
     "set_outlier_method", "set_outlier_threshold"}

\* the value is in the allowed set of the setter; 5.0 to 50.0, 0.0 to 1.0 and
\* 0.5 to 5.0 as numerators over ThresholdDen
Allowed(op, value) ==
    CASE op = "set_analysis_mode" -> value \in {"Local Files", "Live Camera"}
      [] op = "set_duplicate_threshold" ->
            5 * ThresholdDen <= value /\ value <= 50 * ThresholdDen
      [] op = "set_min_confidence" -> 0 <= value /\ value <= ThresholdDen
      [] op = "set_outlier_method" ->
            value \in {"None", "Standard Deviation", "IQR", "Convex Hull"}
      [] op = "set_outlier_threshold" ->
            ThresholdDen <= 2 * value /\ value <= 5 * ThresholdDen

C28_StoredMethodIsRecognised ==
    (call.op = "detect_flyers" /\ session_state.outlier_method # "None")
        => call.method \in KnownMethods

SetterNames ==
    ValidatedSetters \cup {"set_shots", "set_filtered_shots", "set_current_image", "set_mpi"}

\* C30: analysis_history never holds more than 50 entries; a setter call that
\* succeeds appends one entry, as the last element, and when that makes more
\* than 50 the oldest entries are dropped.
C30_HistoryBounded ==
    /\ [](Len(session_state.analysis_history) <= HistoryLimit)
    /\ [][(call'.op \in SetterNames /\ calls' = calls + 1 /\ ret'.kind = "return")
            => LET old == session_state.analysis_history
                   new == session_state'.analysis_history
                   dropped == Len(old) + 1 - Len(new)
               IN  /\ Len(new) = IF Len(old) < HistoryLimit THEN Len(old) + 1
                                 ELSE HistoryLimit
                   /\ \A i \in 1..(Len(new) - 1) : new[i] = old[i + dropped]
                   /\ \A i \in 1..Len(old) : new[Len(new)].timestamp > old[i].timestamp]_vars

\* a setter call succeeded on a full history: the history is full and its
\* oldest entry is gone
C30_Witness ==
    /\ call.op \in SetterNames
    /\ ret.kind = "return"
    /\ Len(session_state.analysis_history) = HistoryLimit
    /\ session_state.analysis_history[1].timestamp > 1
    /\ session_state.analysis_history[HistoryLimit].action = "mode_changed"

-----------------------------------------------------------------------------
(* The analysis service, services/analysis.  The handlers and the pipeline   *)
(* are coroutines of one event loop: each runs without interruption from one *)
(* await to the next, and at an await any other may run.  A Shot is carried  *)
(* as the record of what was live when its frame was read: the number of the *)
(* AnalysisState object of the live session, or None; its coordinates, score *)
(* and round, which no step modelled reads, are left out.                    *)

MaxSessions == 2      \* /session/start is handled up to MaxSessions times
MaxServiceShots == 2  \* the pipeline stops adding at MaxServiceShots shots
MaxHoles == 2         \* most holes predicted in one frame

SessionIds == {"default", "match"}

\* StateManager.start_session: a new AnalysisState with no shots
start_session(st, session_id) ==
    [object |-> st.object + 1, status |-> "LIVE_SESSION",
     session_id |-> session_id, shots |-> <<>>]

\* StateManager.end_session
end_session(st) == [st EXCEPT !.status = "IDLE"]

\* StateManager.add_shot
add_shot(st, shot) == [st EXCEPT !.shots = Append(@, shot)]

\* for pred in predictions["predictions"]: ... state_manager.add_shot(shot),
\* for the holes of the frame that pass the class and confidence test
RECURSIVE AddShots(_, _, _)
AddShots(st, holes, frame) ==
    IF holes = 0 THEN st
    ELSE AddShots(add_shot(st, [fetched_in |-> frame]), holes - 1, frame)

\* the session that is live, if one is
LiveSession(st) == IF st.status = "LIVE_SESSION" THEN Some(st.object) ELSE None

InitService ==
    /\ shots = <<>>
    /\ target_center = None
    /\ target_ring_radii = None
    /\ call = NoCall
    /\ ret = NoRet
    /\ AsConstructed

\* POST /session/start, up to its first await
StartSession ==
    /\ state.object < MaxSessions
    /\ \E session_id \in SessionIds :
         /\ state' = start_session(state, session_id)
         /\ call' = [op |-> "start_session", session_id |-> session_id]
         /\ ret' = [kind |-> "return",
                    value |-> [status |-> "started", session_id |-> session_id]]
    /\ UNCHANGED <<shots, target_center, target_ring_radii, first_metrics, calls,
                   session_state, pipeline>>

\* POST /session/end, up to its first await
EndSession ==
    /\ state' = end_session(state)
    /\ call' = [op |-> "end_session"]
    /\ ret' = [kind |-> "return", value |-> [status |-> "ended"]]
    /\ UNCHANGED <<shots, target_center, target_ring_radii, first_metrics, calls,
                   session_state, pipeline>>

\* if state_manager.state.status == SessionState.LIVE_SESSION: up to the await
\* of the camera's frame, or else to the sleep
PipelineCheck ==
    /\ pipeline.pc = "check"
    /\ pipeline' = [pipeline EXCEPT
                       !.pc = IF state.status = "LIVE_SESSION" THEN "fetch" ELSE "sleep"]
    /\ UNCHANGED <<shots, target_center, target_ring_radii, call, ret, first_metrics,
                   calls, session_state, state>>

\* the camera answers: with a frame, and the pipeline goes on to await the
\* inference, or with none (an error, a status other than 200), and it sleeps
PipelineFetch ==
    /\ pipeline.pc = "fetch"
    /\ \/ pipeline' = [pc |-> "infer", frame_data |-> Some(LiveSession(state))]
       \/ pipeline' = [pc |-> "sleep", frame_data |-> None]
    /\ UNCHANGED <<shots, target_center, target_ring_radii, call, ret, first_metrics,
                   calls, session_state, state>>

\* the inference answers: the holes of the frame are added as shots, or it
\* raised and the except clause sleeps
PipelineInfer ==
    /\ pipeline.pc = "infer"
    /\ \/ \E holes \in 0..MaxHoles :
            /\ Len(state.shots) + holes <= MaxServiceShots
            /\ state' = AddShots(state, holes, Val(pipeline.frame_data))
       \/ state' = state
    /\ pipeline' = [pc |-> "sleep", frame_data |-> None]
    /\ UNCHANGED <<shots, target_center, target_ring_radii, call, ret, first_metrics,
                   calls, session_state>>

\* await asyncio.sleep(...) returns
PipelineSleep ==
    /\ pipeline.pc = "sleep"
    /\ pipeline' = [pipeline EXCEPT !.pc = "check"]
    /\ UNCHANGED <<shots, target_center, target_ring_radii, call, ret, first_metrics,
                   calls, session_state, state>>

NextService ==
    \/ StartSession
    \/ EndSession
    \/ PipelineCheck
    \/ PipelineFetch
    \/ PipelineInfer
    \/ PipelineSleep

SpecService == InitService /\ [][NextService]_vars

-----------------------------------------------------------------------------
(* Properties of the analysis service *)

\* C29: under every interleaving of the pipeline with the two handlers, a shot
\* is appended only while the status is LIVE_SESSION, and only to the session
\* that was live when its frame was fetched; after end_session the list does
\* not grow until the next start_session.
C29_ShotsOnlyIntoTheLiveSession ==
    [][(state'.object = state.object /\ Len(state'.shots) > Len(state.shots))
          => /\ state.status = "LIVE_SESSION"
             /\ \A i \in (Len(state.shots) + 1)..Len(state'.shots) :
                   state'.shots[i].fetched_in = Some(state.object)]_vars

====
